---------------------------- MODULE Spec2Model ----------------------------
(***************************************************************************)
(* A model of the scout-ai tourist guide: the retry wrapper around         *)
(* outbound Gemini calls, the raw PCM decode and AudioPlayer, the          *)
(* NearbyPlaces session cache and stored location, and the response        *)
(* handling of findNearbyPlaces and translatePlaceDetails.                 *)
(*                                                                         *)
(* JavaScript strings are sequences of one-character strings, so that      *)
(* includes, toLowerCase, trim, startsWith and the regular expressions     *)
(* are computed character by character.                                    *)
(***************************************************************************)
EXTENDS Integers, Sequences, FiniteSets, TLC

VARIABLES
    \* callGeminiWithRetry
    rPc,            \* "idle" | "calling" | "sleeping" | "returned" | "rejected"
    maxRetries,     \* the maxRetries argument (3 when omitted)
    attempt,        \* the local `attempt`
    apiCalls,       \* number of invocations of apiCall so far
    outcomes,       \* settled attempts, in order: [ok, value] or [ok, error]
    delays,         \* the delays handed to sleep, in order
    rResult,        \* how the wrapper settled: [tag, value] / [tag, error]
    \* decode / decodeAudioData
    dIn,            \* [base64, decoded, numChannels]: the payload, what decode
                    \* made of it and the channel count; or None
    dOut,           \* the AudioBuffer produced, or the exception thrown, or None
    \* AudioPlayer (the singleton audioPlayer)
    audioContext,   \* this.audioContext: a context id, 0 for null
    ctxState,       \* AudioContext.state of every context ever created
    sourceNode,     \* this.sourceNode: a source id, 0 for null
    isPlaying,      \* this._isPlaying
    onPlaybackEnd,  \* this.onPlaybackEnd: the play() call whose onEnd it holds, 0 for null
    plays,          \* every play() call: where it stands and its locals
    srcState,       \* every AudioBufferSourceNode: "none" | "playing" | "ended" | "stopped"
    srcHandler,     \* whether the node's onended handler is attached
    onEndLog,       \* history: the onEnd invocations, [callback, source]
    stopCalled,     \* history: stop() was called and play() was not called since
    \* NearbyPlaces: module level and browser
    now,            \* Date.now()
    storage,        \* localStorage['scout-ai-location']: the stored text, or None
    sessionCache,   \* the module-level sessionCache, or None
    language,       \* the language of the LanguageContext
    \* NearbyPlaces: the mounted component instance
    mounted,        \* whether an instance is mounted
    effectPending,  \* the cache/location effect is scheduled and has not run
    loadingState,   \* 'idle' | 'gettingLocation' | 'findingPlaces' | 'generatingImages'
    isLoadingMore,
    hasMore,
    coordinates,
    places,
    \* NearbyPlaces: asynchronous work in flight
    \* getCurrentPosition requests not yet answered
    fetches,        \* the getCurrentPosition requests and fetchAndDisplayPlaces calls
    loadMores,      \* the handleLoadMore calls
    findCalls,      \* number of findNearbyPlaces calls issued
    imageCalls,     \* number of generateImageForPlace calls issued
    lastGet,        \* history: the last getValidLocation call
    lastSaved,      \* history: the last location saveLocation stored
    \* findNearbyPlaces and translatePlaceDetails
    fIn,            \* the response findNearbyPlaces got, None before the call
    fOut,           \* what findNearbyPlaces returned or threw
    tIn,            \* the arguments and the response of translatePlaceDetails
    tOut,           \* what translatePlaceDetails returned or threw
    \* getTopPlaces
    gIn,            \* the document snapshot getDoc resolved with
    gOut,           \* what getTopPlaces returned or threw
    \* LanguageProvider
    lpStorage,      \* local storage item 'tour-guide-language'
    lpMounted,      \* the provider is mounted
    lpLanguage,     \* the language state ("unmounted" when there is none)
    lpInitRead,     \* history: what the initialiser read
    lpLastArg,      \* history: the argument of the last changeLanguage call
    lpCalls,        \* number of changeLanguage calls since the mount
    \* TopPlaces
    tpPlaces,           \* the places state: None or List(...)
    tpActiveFilterKey,  \* the activeFilterKey state
    tpFavorites,        \* the favorites state: a set of place names
    \* Chatbot
    cbMounted,      \* the component is mounted
    cbChat,         \* the chat state: None or the session
    cbMessages,     \* the messages state
    cbInput,        \* the input state, a string of characters
    cbIsLoading,    \* the isLoading state
    cbInits,        \* the initializeChat calls
    cbSends,        \* the handleSend calls, with what held at acceptance
    \* identifyLandmark
    ilPc,           \* "idle" | "preparing" | "identifying" | "researching" |
                    \* "synthesising" | "resolved" | "rejected"
    ilLanguage,     \* the language argument
    ilProgress,     \* the messages passed to onProgress, in order
    ilRequests,     \* the requests issued, in order
    ilAnswer,       \* history: the identification answer
    ilName,         \* landmarkName
    ilHistory,      \* historyText
    ilAudio,        \* history: the audio answer
    ilResult        \* what identifyLandmark returned or threw

retryVars == <<rPc, maxRetries, attempt, apiCalls, outcomes, delays, rResult>>
decodeVars == <<dIn, dOut>>
playerVars == <<audioContext, ctxState, sourceNode, isPlaying, onPlaybackEnd,
                plays, srcState, srcHandler, onEndLog, stopCalled>>

nearbyVars == <<now, storage, sessionCache, language, mounted, effectPending, loadingState, isLoadingMore, hasMore, coordinates,
                places, fetches, loadMores, findCalls, imageCalls,
                lastGet, lastSaved>>

responseVars == <<fIn, fOut, tIn, tOut>>
topPlacesVars == <<gIn, gOut>>
providerVars == <<lpStorage, lpMounted, lpLanguage, lpInitRead, lpLastArg,
                  lpCalls>>
topFilterVars == <<tpPlaces, tpActiveFilterKey, tpFavorites>>
chatVars == <<cbMounted, cbChat, cbMessages, cbInput, cbIsLoading, cbInits,
              cbSends>>
identifyVars == <<ilPc, ilLanguage, ilProgress, ilRequests, ilAnswer, ilName,
                  ilHistory, ilAudio, ilResult>>

vars ==
    <<retryVars, decodeVars, playerVars, nearbyVars,
      responseVars, topPlacesVars, providerVars, topFilterVars,
      chatVars, identifyVars>>

notRetry ==
    <<decodeVars, playerVars, nearbyVars, responseVars,
      topPlacesVars, providerVars, topFilterVars, chatVars,
      identifyVars>>
notDecode ==
    <<retryVars, playerVars, nearbyVars, responseVars,
      topPlacesVars, providerVars, topFilterVars, chatVars,
      identifyVars>>
notPlayer ==
    <<retryVars, decodeVars, nearbyVars, responseVars,
      topPlacesVars, providerVars, topFilterVars, chatVars,
      identifyVars>>
notNearby ==
    <<retryVars, decodeVars, playerVars, responseVars,
      topPlacesVars, providerVars, topFilterVars, chatVars,
      identifyVars>>
notResponse ==
    <<retryVars, decodeVars, playerVars, nearbyVars,
      topPlacesVars, providerVars, topFilterVars, chatVars,
      identifyVars>>
notTopPlaces ==
    <<retryVars, decodeVars, playerVars, nearbyVars,
      responseVars, providerVars, topFilterVars, chatVars,
      identifyVars>>
notProvider ==
    <<retryVars, decodeVars, playerVars, nearbyVars,
      responseVars, topPlacesVars, topFilterVars, chatVars,
      identifyVars>>
notTopFilter ==
    <<retryVars, decodeVars, playerVars, nearbyVars,
      responseVars, topPlacesVars, providerVars, chatVars,
      identifyVars>>
notChat ==
    <<retryVars, decodeVars, playerVars, nearbyVars,
      responseVars, topPlacesVars, providerVars, topFilterVars,
      identifyVars>>
notIdentify ==
    <<retryVars, decodeVars, playerVars, nearbyVars,
      responseVars, topPlacesVars, providerVars, topFilterVars,
      chatVars>>

None == [tag |-> "none"]

-----------------------------------------------------------------------------
(* String helpers: the String.prototype methods the code uses *)

UpperCaseLetters ==
    <<"A","B","C","D","E","F","G","H","I","J","K","L","M",
      "N","O","P","Q","R","S","T","U","V","W","X","Y","Z">>

LowerCaseLetters ==
    <<"a","b","c","d","e","f","g","h","i","j","k","l","m",
      "n","o","p","q","r","s","t","u","v","w","x","y","z">>

toLowerChar(c) ==
    IF \E i \in 1..26 : UpperCaseLetters[i] = c
    THEN LowerCaseLetters[CHOOSE i \in 1..26 : UpperCaseLetters[i] = c]
    ELSE c

\* String.prototype.toLowerCase
toLowerCase(s) == [i \in 1..Len(s) |-> toLowerChar(s[i])]

\* String.prototype.includes
includes(s, sub) ==
    \E i \in 0..(Len(s) - Len(sub)) : SubSeq(s, i + 1, i + Len(sub)) = sub

\* String.prototype.startsWith
startsWith(s, prefix) ==
    Len(prefix) <= Len(s) /\ SubSeq(s, 1, Len(prefix)) = prefix

RECURSIVE Pow2(_)
\* Math.pow(2, n) for a natural n
Pow2(n) == IF n = 0 THEN 1 ELSE 2 * Pow2(n - 1)

-----------------------------------------------------------------------------
(* callGeminiWithRetry *)

\* Largest explicit maxRetries argument explored.
MaxRetriesArg == 3

\* The default value of the maxRetries parameter.
DefaultMaxRetries == 3

\* Values thrown by apiCall: Error objects with a message, and one bare string.
ThrownValues ==
    { [isError |-> TRUE,  text |-> <<"4","2","9">>],
      [isError |-> TRUE,  text |-> <<"H","T","T","P"," ","5","0","3">>],
      [isError |-> TRUE,  text |-> <<"U","N","A","V","A","I","L","A","B","L","E">>],
      [isError |-> TRUE,  text |-> <<"M","o","d","e","l"," ","i","s"," ","O","v","e","r","l","o","a","d","e","d">>],
      [isError |-> FALSE, text |-> <<"R","E","S","O","U","R","C","E","_","E","X","H","A","U","S","T","E","D">>],
      [isError |-> TRUE,  text |-> <<"u","n","a","v","a","i","l","a","b","l","e">>],
      [isError |-> TRUE,  text |-> <<"4","0","4">>] }

\* Values apiCall resolves with.
ApiValues == {"v1", "v2"}

\* Samples of Math.random() * 1000, a number in [0, 1000).
Jitters == {0, 500, 999}

\* error instanceof Error ? error.message : String(error)
errorMessage(error) == error.text

isTransientErrorAnyCase(msg) ==
    \/ includes(msg, <<"4","2","9">>)
    \/ includes(msg, <<"5","0","3">>)
    \/ includes(toLowerCase(msg), <<"u","n","a","v","a","i","l","a","b","l","e">>)
    \/ includes(toLowerCase(msg),
                <<"m","o","d","e","l"," ","i","s"," ","o","v","e","r","l","o","a","d","e","d">>)
    \/ includes(msg, <<"R","E","S","O","U","R","C","E","_","E","X","H","A","U","S","T","E","D">>)

\* const isTransientError = ...
isTransientError(msg) ==
    \/ includes(msg, <<"4","2","9">>)
    \/ includes(msg, <<"5","0","3">>)
    \/ includes(msg, <<"U","N","A","V","A","I","L","A","B","L","E">>)
    \/ includes(toLowerCase(msg),
                <<"m","o","d","e","l"," ","i","s"," ","o","v","e","r","l","o","a","d","e","d">>)
    \/ includes(msg, <<"R","E","S","O","U","R","C","E","_","E","X","H","A","U","S","T","E","D">>)

ShouldRetryOffByOne(transient, att, max) == transient /\ att <= max

\* if (isTransientError && attempt < maxRetries)
ShouldRetry(transient, att, max) == transient /\ att < max

BackoffDelayLinear(att, jitter) == att * 1000 + jitter

\* Math.pow(2, attempt) * 1000 + Math.random() * 1000
BackoffDelay(att, jitter) == Pow2(att) * 1000 + jitter

\* new Error('API call failed after exhausting all retries.')
ExhaustedError ==
    [isError |-> TRUE,
     text |-> <<"A","P","I"," ","c","a","l","l"," ","f","a","i","l","e","d"," ",
                "a","f","t","e","r"," ","e","x","h","a","u","s","t","i","n","g"," ",
                "a","l","l"," ","r","e","t","r","i","e","s",".">>]

\* One pass of `while (attempt < maxRetries)`: either apiCall is invoked and
\* awaited, or the loop is left and the fallback error is thrown.
LoopHead(att, max) ==
    IF att < max
    THEN /\ rPc' = "calling"
         /\ apiCalls' = apiCalls + 1
         /\ rResult' = rResult
    ELSE /\ rPc' = "rejected"
         /\ apiCalls' = apiCalls
         /\ rResult' = [tag |-> "throw", error |-> ExhaustedError]

\* callGeminiWithRetry(apiCall) or callGeminiWithRetry(apiCall, m)
RetryCall ==
    /\ rPc = "idle"
    /\ \E args \in {<<>>} \cup {<<m>> : m \in 0..MaxRetriesArg} :
         LET max == IF Len(args) = 0 THEN DefaultMaxRetries ELSE args[1] IN
         /\ maxRetries' = max
         /\ attempt' = 0
         /\ LoopHead(0, max)
    /\ UNCHANGED <<outcomes, delays>>
    /\ UNCHANGED notRetry

\* `return await apiCall()` when the attempt resolves
ApiResolve ==
    /\ rPc = "calling"
    /\ \E v \in ApiValues :
         /\ rPc' = "returned"
         /\ rResult' = [tag |-> "return", value |-> v]
         /\ outcomes' = Append(outcomes, [ok |-> TRUE, value |-> v])
    /\ UNCHANGED <<maxRetries, attempt, apiCalls, delays>>
    /\ UNCHANGED notRetry

NotIncremented(att) == att

\* attempt++
Incremented(att) == att + 1

\* the catch block, when the attempt rejects
ApiReject ==
    /\ rPc = "calling"
    /\ \E error \in ThrownValues, jitter \in Jitters :
         /\ attempt' = Incremented(attempt)
         /\ outcomes' = Append(outcomes, [ok |-> FALSE, error |-> error])
         /\ IF ShouldRetry(isTransientError(errorMessage(error)),
                           Incremented(attempt), maxRetries)
            THEN /\ delays' = Append(delays,
                                     BackoffDelay(Incremented(attempt), jitter))
                 /\ rPc' = "sleeping"
                 /\ rResult' = rResult
            ELSE /\ delays' = delays
                 /\ rPc' = "rejected"
                 /\ rResult' = [tag |-> "throw", error |-> error]
    /\ UNCHANGED <<maxRetries, apiCalls>>
    /\ UNCHANGED notRetry

\* the timer of sleep(delay) fires and the loop goes round
SleepElapsed ==
    /\ rPc = "sleeping"
    /\ apiCalls <= MaxRetriesArg   \* no more calls than these are explored
    /\ LoopHead(attempt, maxRetries)
    /\ UNCHANGED <<maxRetries, attempt, outcomes, delays>>
    /\ UNCHANGED notRetry

-----------------------------------------------------------------------------
(* Claims about callGeminiWithRetry *)

\* The transient errors as the documentation lists them.
ListedTransient(msg) ==
    \/ includes(msg, <<"4","2","9">>)
    \/ includes(msg, <<"5","0","3">>)
    \/ includes(msg, <<"U","N","A","V","A","I","L","A","B","L","E">>)
    \/ includes(msg, <<"R","E","S","O","U","R","C","E","_","E","X","H","A","U","S","T","E","D">>)
    \/ includes(toLowerCase(msg),
                <<"m","o","d","e","l"," ","i","s"," ","o","v","e","r","l","o","a","d","e","d">>)

\* C1: apiCall is invoked at most maxRetries times; every attempt but the
\* last one made so far failed with a listed transient error; a successful
\* attempt is the last one, and its value is what the wrapper returns.
C1_BoundedRetries ==
    /\ apiCalls <= maxRetries
    /\ apiCalls \in {Len(outcomes), Len(outcomes) + 1}
    /\ \A i \in 1..Len(outcomes) :
         /\ i < apiCalls =>
               /\ ~outcomes[i].ok
               /\ ListedTransient(outcomes[i].error.text)
         /\ outcomes[i].ok =>
               /\ i = apiCalls
               /\ rPc = "returned"
               /\ rResult = [tag |-> "return", value |-> outcomes[i].value]
    /\ rPc = "returned" => Len(outcomes) > 0 /\ outcomes[Len(outcomes)].ok

\* A call that succeeded on its third attempt, after two transient failures.
C1_Witness ==
    /\ rPc = "returned"
    /\ apiCalls = 3
    /\ ~outcomes[1].ok /\ ~outcomes[2].ok

\* C2: when the last settled attempt failed with a non-transient error, or
\* with a transient one on attempt number maxRetries, the wrapper has
\* rejected with that very error, has not slept after it and has not
\* invoked apiCall again.
C2_RethrowsLastError ==
    LET n == Len(outcomes) IN
    (/\ n > 0
     /\ ~outcomes[n].ok
     /\ (~ListedTransient(outcomes[n].error.text) \/ n = maxRetries))
    => /\ rPc = "rejected"
       /\ rResult = [tag |-> "throw", error |-> outcomes[n].error]
       /\ Len(delays) = n - 1
       /\ apiCalls = n

\* A call rejected on its last permitted attempt by a transient error.
C2_Witness ==
    /\ rPc = "rejected"
    /\ maxRetries = 3
    /\ Len(outcomes) = 3
    /\ ListedTransient(outcomes[3].error.text)

C15_Terminates ==
    (rPc \in {"calling", "sleeping"}) ~> (rPc \in {"returned", "rejected"})

\* A call has ended after every permitted attempt failed with a transient
\* error and a sleep followed each but the last.
C15_Witness ==
    /\ rPc = "rejected"
    /\ maxRetries >= 2
    /\ Len(outcomes) = maxRetries
    /\ Len(delays) = maxRetries - 1
    /\ \A i \in 1..Len(outcomes) :
         ~outcomes[i].ok /\ isTransientError(errorMessage(outcomes[i].error))

-----------------------------------------------------------------------------
RetryInit ==
    /\ rPc = "idle"
    /\ maxRetries = 0
    /\ attempt = 0
    /\ apiCalls = 0
    /\ outcomes = <<>>
    /\ delays = <<>>
    /\ rResult = None

RetryNext == RetryCall \/ ApiResolve \/ ApiReject \/ SleepElapsed

-----------------------------------------------------------------------------
(* decode and decodeAudioData *)

\* Largest number of 16-bit samples in a payload.
MaxSamples == 4

\* The 16-bit sample values payloads are built from.
SampleValues == {-32768, -1, 0, 32767}

B64Alphabet ==
    <<"A","B","C","D","E","F","G","H","I","J","K","L","M",
      "N","O","P","Q","R","S","T","U","V","W","X","Y","Z",
      "a","b","c","d","e","f","g","h","i","j","k","l","m",
      "n","o","p","q","r","s","t","u","v","w","x","y","z",
      "0","1","2","3","4","5","6","7","8","9","+","/">>

B64Char(n) == B64Alphabet[n + 1]

B64Index(c) == (CHOOSE i \in 1..64 : B64Alphabet[i] = c) - 1

IsB64Char(c) == \E i \in 1..64 : B64Alphabet[i] = c

RECURSIVE Btoa(_)
\* The service's side of the wire: the base64 text of a byte sequence.
Btoa(bytes) ==
    IF Len(bytes) = 0 THEN <<>>
    ELSE IF Len(bytes) = 1 THEN
        <<B64Char(bytes[1] \div 4), B64Char((bytes[1] % 4) * 16), "=", "=">>
    ELSE IF Len(bytes) = 2 THEN
        <<B64Char(bytes[1] \div 4),
          B64Char((bytes[1] % 4) * 16 + bytes[2] \div 16),
          B64Char((bytes[2] % 16) * 4), "=">>
    ELSE
        <<B64Char(bytes[1] \div 4),
          B64Char((bytes[1] % 4) * 16 + bytes[2] \div 16),
          B64Char((bytes[2] % 16) * 4 + bytes[3] \div 64),
          B64Char(bytes[3] % 64)>> \o Btoa(SubSeq(bytes, 4, Len(bytes)))

RECURSIVE PcmBytes(_)
\* The service's side of the wire: 16-bit PCM, low byte first.
PcmBytes(samples) ==
    IF Len(samples) = 0 THEN <<>>
    ELSE LET u == (samples[1] + 65536) % 65536 IN
         <<u % 256, u \div 256>> \o PcmBytes(Tail(samples))

RECURSIVE AtobGroups(_)
\* The bytes of a run of base64 characters (padding already removed):
\* 4 characters give 3 bytes, a rest of 3 gives 2, a rest of 2 gives 1.
AtobGroups(cs) ==
    IF Len(cs) < 2 THEN <<>>
    ELSE LET a == B64Index(cs[1])
             b == B64Index(cs[2]) IN
         IF Len(cs) = 2 THEN <<a * 4 + b \div 16>>
         ELSE LET c == B64Index(cs[3]) IN
              IF Len(cs) = 3
              THEN <<a * 4 + b \div 16, (b % 16) * 16 + c \div 4>>
              ELSE <<a * 4 + b \div 16, (b % 16) * 16 + c \div 4,
                     (c % 4) * 64 + B64Index(cs[4])>>
                   \o AtobGroups(SubSeq(cs, 5, Len(cs)))

\* window.atob: the character codes of the decoded binary string, or an
\* InvalidCharacterError.
atob(base64) ==
    LET n == Len(base64)
        pad == IF n % 4 = 0 /\ n >= 2 /\ base64[n] = "=" /\ base64[n - 1] = "=" THEN 2
               ELSE IF n % 4 = 0 /\ n >= 1 /\ base64[n] = "=" THEN 1
               ELSE 0
        body == SubSeq(base64, 1, n - pad)
    IN  IF Len(body) % 4 = 1 \/ \E i \in 1..Len(body) : ~IsB64Char(body[i])
        THEN [tag |-> "throw", name |-> "InvalidCharacterError"]
        ELSE [tag |-> "ok", codes |-> AtobGroups(body)]

\* function decode(base64): bytes[i] = binaryString.charCodeAt(i)
decode(base64) ==
    LET binaryString == atob(base64) IN
    IF binaryString.tag = "throw" THEN binaryString
    ELSE [tag |-> "ok",
          bytes |-> [i \in 1..Len(binaryString.codes) |-> binaryString.codes[i] % 256]]

Int16ViewBigEndian(bytes) ==
    [k \in 1..(Len(bytes) \div 2) |->
        LET u == bytes[2 * k - 1] * 256 + bytes[2 * k] IN
        IF u >= 32768 THEN u - 65536 ELSE u]

\* new Int16Array(data.buffer) on a buffer of even length: element k is the
\* two's complement number whose low byte comes first.
Int16View(bytes) ==
    [k \in 1..(Len(bytes) \div 2) |->
        LET u == bytes[2 * k - 1] + 256 * bytes[2 * k] IN
        IF u >= 32768 THEN u - 65536 ELSE u]

NormalizeBy32767(sample) == [num |-> sample, den |-> 32767]

\* dataInt16[...] / 32768.0, an exact binary fraction
Normalize(sample) == [num |-> sample, den |-> 32768]

\* The content of a Float32Array that was never written.
Silence == [num |-> 0, den |-> 1]

\* async function decodeAudioData(data, ctx, sampleRate, numChannels)
decodeAudioData(data, numChannels) ==
    IF Len(data) % 2 # 0
    THEN [tag |-> "throw", name |-> "RangeError"]
    ELSE
      LET dataInt16 == Int16View(data)
          \* frameCount is the quotient dataInt16.length / numChannels, not
          \* rounded; createBuffer truncates it to an unsigned long.
          length == Len(dataInt16) \div numChannels
          loopFrames == {i \in 0..Len(dataInt16) : i * numChannels < Len(dataInt16)}
      IN  IF length = 0
          THEN [tag |-> "throw", name |-> "NotSupportedError"]
          ELSE [tag |-> "buffer",
                length |-> length,
                numberOfChannels |-> numChannels,
                channelData |->
                  [channel \in 0..(numChannels - 1) |->
                    [i \in 0..(length - 1) |->
                       IF i \in loopFrames
                       THEN Normalize(dataInt16[i * numChannels + channel + 1])
                       ELSE Silence]]]

\* The payloads the text-to-speech response can carry: the base64 text of
\* some samples, possibly followed by a stray byte, possibly cut short.
Payload(samples, stray, cut) ==
    LET text == Btoa(PcmBytes(samples) \o stray) IN
    SubSeq(text, 1, Len(text) - cut)

SampleSeqs == UNION {[1..n -> SampleValues] : n \in 0..MaxSamples}

\* decodeAudioData(decode(base64Audio), ctx, 24000, numChannels)
Decode ==
    /\ dIn = None
    /\ \E samples \in SampleSeqs, stray \in {<<>>, <<255>>}, cut \in {0, 1},
          numChannels \in {1, 2} :
         LET base64 == Payload(samples, stray, cut)
             decodedBytes == decode(base64) IN
         /\ dIn' = [tag |-> "args", base64 |-> base64, decoded |-> decodedBytes,
                     numChannels |-> numChannels]
         /\ dOut' = IF decodedBytes.tag = "throw" THEN decodedBytes
                    ELSE decodeAudioData(decodedBytes.bytes, numChannels)
    /\ UNCHANGED notDecode

DecodeInit == dIn = None /\ dOut = None

DecodeNext == Decode

-----------------------------------------------------------------------------
(* Claims about decodeAudioData *)

\* The signed 16-bit number whose low byte is lo and whose high byte is hi.
LittleEndian16(lo, hi) ==
    IF hi >= 128 THEN lo + 256 * hi - 65536 ELSE lo + 256 * hi

\* C4: the byte payload is read as little-endian signed 16-bit samples; the
\* buffer has (sample count / numChannels) frames; frame i of channel c
\* holds interleaved sample i*numChannels+c divided by 32768, a value
\* between -1.0 and 1.0.  A buffer is produced whenever the payload has an
\* even number of bytes holding at least one frame.
C4_PcmToFloat ==
    (dIn # None /\ dIn.decoded.tag = "ok") =>
        LET bytes == dIn.decoded.bytes
            nc == dIn.numChannels
            count == Len(bytes) \div 2 IN
        /\ (Len(bytes) % 2 = 0 /\ count >= nc) => dOut.tag = "buffer"
        /\ dOut.tag = "buffer" =>
             /\ Len(bytes) % 2 = 0
             /\ dOut.length = count \div nc
             /\ count % nc = 0 => dOut.length * nc = count
             /\ \A c \in 0..(nc - 1), i \in 0..(dOut.length - 1) :
                  LET k == i * nc + c
                      v == dOut.channelData[c][i] IN
                  /\ v.den = 32768
                  /\ v.num = LittleEndian16(bytes[2 * k + 1], bytes[2 * k + 2])
                  /\ -v.den <= v.num /\ v.num <= v.den

\* A stereo payload of two frames whose last sample is the most negative one.
C4_Witness ==
    /\ dOut # None
    /\ dOut.tag = "buffer"
    /\ dOut.numberOfChannels = 2
    /\ dOut.length = 2
    /\ dOut.channelData[0][0].num = 32767
    /\ dOut.channelData[1][1].num = -32768

-----------------------------------------------------------------------------
(* AudioPlayer *)

\* Number of play() calls explored.
MaxPlays == 3

\* Number of AudioContexts that can be created.
MaxContexts == 2

PlayIds == 1..MaxPlays
ContextIds == 1..MaxContexts

\* The base64Audio arguments: a clean mono clip, and a clip with a stray byte.
PlayPayloads ==
    { Payload(<<0, 32767>>, <<>>, 0), Payload(<<0>>, <<255>>, 0) }

NotCalled == [pc |-> "unborn", ctx |-> 0, hasOnEnd |-> FALSE, audioBuffer |-> None]

\* A source is heard while it is playing on a running context.
Audible(s) == srcState[s] = "playing" /\ ctxState[plays[s].ctx] = "running"

\* Continuations of the same await run in the order the calls were made.
EarlierPending(p, stage) == \E q \in PlayIds : q < p /\ plays[q].pc = stage

\* The body of stop()
StopBody ==
    IF sourceNode # 0
    THEN /\ isPlaying' = FALSE
         /\ srcHandler' = [srcHandler EXCEPT ![sourceNode] = FALSE]
         /\ srcState' = [srcState EXCEPT ![sourceNode] =
                            IF @ = "playing" THEN "stopped" ELSE @]
         /\ sourceNode' = 0
    ELSE UNCHANGED <<isPlaying, srcHandler, srcState, sourceNode>>

\* const decodedBytes = decode(base64Audio);
\* const audioBuffer = await decodeAudioData(decodedBytes, ctx, 24000, 1);
\* up to the await: the call is rejected at once when decode throws, and
\* otherwise suspended on the promise of decodeAudioData.
DecodeStep(p, call, base64Audio) ==
    LET decodedBytes == decode(base64Audio) IN
    IF decodedBytes.tag = "throw"
    THEN plays' = [plays EXCEPT ![p] = [call EXCEPT !.pc = "rejected"]]
    ELSE plays' = [plays EXCEPT ![p] =
                     [call EXCEPT !.pc = "awaitDecode",
                                  !.audioBuffer = decodeAudioData(decodedBytes.bytes, 1)]]

\* play(base64Audio, onEnd), up to its first await
Play(p) ==
    /\ plays[p].pc = "unborn"
    /\ \A q \in PlayIds : q < p => plays[q].pc # "unborn"
    /\ IF isPlaying THEN StopBody
       ELSE UNCHANGED <<isPlaying, srcHandler, srcState, sourceNode>>
    /\ \E base64Audio \in PlayPayloads, hasOnEnd \in BOOLEAN,
          freshState \in {"suspended", "running"} :
         \* getContext()
         LET reuse == audioContext # 0 /\ ctxState[audioContext] # "closed"
             fresh == CHOOSE c \in ContextIds \cup {0} :
                         /\ c # 0 => ctxState[c] = "unborn"
                         /\ \A d \in ContextIds : d < c => ctxState[d] # "unborn"
                         /\ c = 0 => \A d \in ContextIds : ctxState[d] # "unborn"
             ctx == IF reuse THEN audioContext ELSE fresh
             state == IF reuse THEN ctxState[ctx] ELSE freshState
             call == [pc |-> "awaitResume", ctx |-> ctx, hasOnEnd |-> hasOnEnd,
                      audioBuffer |-> [tag |-> "pending", base64 |-> base64Audio]]
         IN
         /\ ctx # 0
         \* the state of a fresh context is the browser's choice; a context
         \* that is reused keeps its state
         /\ reuse => freshState = "running"
         /\ audioContext' = ctx
         /\ ctxState' = [ctxState EXCEPT ![ctx] = state]
         /\ IF state = "suspended"
            THEN plays' = [plays EXCEPT ![p] = call]
            ELSE DecodeStep(p, call, base64Audio)
    /\ stopCalled' = FALSE
    /\ UNCHANGED <<onPlaybackEnd, onEndLog>>
    /\ UNCHANGED notPlayer

\* `await ctx.resume()` settles: the context runs and play() goes on to
\* decode, or the context was closed meanwhile and resume() rejects.
Resumed(p) ==
    /\ plays[p].pc = "awaitResume"
    /\ ~EarlierPending(p, "awaitResume")
    /\ IF ctxState[plays[p].ctx] = "closed"
       THEN /\ plays' = [plays EXCEPT ![p].pc = "rejected"]
            /\ UNCHANGED ctxState
       ELSE /\ ctxState' = [ctxState EXCEPT ![plays[p].ctx] = "running"]
            /\ DecodeStep(p, plays[p], plays[p].audioBuffer.base64)
    /\ UNCHANGED <<audioContext, sourceNode, isPlaying, onPlaybackEnd,
                   srcState, srcHandler, onEndLog, stopCalled>>
    /\ UNCHANGED notPlayer

\* play() after `await decodeAudioData(...)`: the rest of the method, or the
\* rejection when decodeAudioData threw
StartSource(p) ==
    /\ plays[p].pc = "awaitDecode"
    /\ ~EarlierPending(p, "awaitDecode")
    /\ IF plays[p].audioBuffer.tag = "throw"
       THEN /\ plays' = [plays EXCEPT ![p].pc = "rejected"]
            /\ UNCHANGED <<sourceNode, onPlaybackEnd, srcState, srcHandler, isPlaying>>
       ELSE /\ plays' = [plays EXCEPT ![p].pc = "resolved"]
            /\ sourceNode' = p
            /\ onPlaybackEnd' = IF plays[p].hasOnEnd THEN p ELSE 0
            /\ srcHandler' = [srcHandler EXCEPT ![p] = TRUE]
            /\ srcState' = [srcState EXCEPT ![p] = "playing"]
            /\ isPlaying' = TRUE
    /\ UNCHANGED <<audioContext, ctxState, onEndLog, stopCalled>>
    /\ UNCHANGED notPlayer

\* The clip of source s runs out; the `ended` event is dispatched to the
\* handler play() attached, unless stop() detached it.
SourceEnded(s) ==
    /\ Audible(s)
    /\ srcState' = [srcState EXCEPT ![s] = "ended"]
    /\ IF srcHandler[s] /\ isPlaying
       THEN /\ isPlaying' = FALSE
            /\ onEndLog' = IF onPlaybackEnd # 0
                           THEN Append(onEndLog, [callback |-> onPlaybackEnd, source |-> s])
                           ELSE onEndLog
       ELSE UNCHANGED <<isPlaying, onEndLog>>
    /\ UNCHANGED <<audioContext, ctxState, sourceNode, onPlaybackEnd, plays,
                   srcHandler, stopCalled>>
    /\ UNCHANGED notPlayer

\* stop()
Stop ==
    /\ StopBody
    /\ stopCalled' = TRUE
    /\ UNCHANGED <<audioContext, ctxState, onPlaybackEnd, plays, onEndLog>>
    /\ UNCHANGED notPlayer

\* destroy()
Destroy ==
    /\ StopBody
    /\ IF audioContext # 0 /\ ctxState[audioContext] # "closed"
       THEN /\ ctxState' = [ctxState EXCEPT ![audioContext] = "closed"]
            /\ audioContext' = 0
       ELSE UNCHANGED <<audioContext, ctxState>>
    /\ stopCalled' = TRUE
    /\ UNCHANGED <<onPlaybackEnd, plays, onEndLog>>
    /\ UNCHANGED notPlayer

PlayerInit ==
    /\ audioContext = 0
    /\ ctxState = [c \in ContextIds |-> "unborn"]
    /\ sourceNode = 0
    /\ isPlaying = FALSE
    /\ onPlaybackEnd = 0
    /\ plays = [p \in PlayIds |-> NotCalled]
    /\ srcState = [p \in PlayIds |-> "none"]
    /\ srcHandler = [p \in PlayIds |-> FALSE]
    /\ onEndLog = <<>>
    /\ stopCalled = FALSE

PlayerNext ==
    \/ \E p \in PlayIds : Play(p)
    \/ \E p \in PlayIds : Resumed(p)
    \/ \E p \in PlayIds : StartSource(p)
    \/ \E s \in PlayIds : SourceEnded(s)
    \/ Stop
    \/ Destroy

-----------------------------------------------------------------------------
(* Claims about AudioPlayer *)

\* C5: an onEnd callback is invoked only when the playback of its own play()
\* call ends naturally, never for a playback that stop() ended, and at most
\* once per play() call.
C5_OnEndOnlyOnNaturalEnd ==
    /\ \A i \in 1..Len(onEndLog) :
         /\ onEndLog[i].callback = onEndLog[i].source
         /\ srcState[onEndLog[i].callback] # "stopped"
    /\ \A i, j \in 1..Len(onEndLog) :
         onEndLog[i].callback = onEndLog[j].callback => i = j

\* The part of C5 that the calls cannot break: at most one invocation per call.
C5_AtMostOnce ==
    \A i, j \in 1..Len(onEndLog) :
        onEndLog[i].callback = onEndLog[j].callback => i = j

\* C6: once stop() has been called and play() has not been called since,
\* isPlaying is false and no source is heard.
C6_StopSilences ==
    stopCalled => (~isPlaying /\ \A s \in PlayIds : ~Audible(s))

-----------------------------------------------------------------------------
(* NearbyPlaces: the session cache and the stored location *)

\* Number of fetchAndDisplayPlaces calls (and of the getCurrentPosition
\* requests leading to them) explored.
MaxFetches == 1

\* Number of handleLoadMore calls explored.
MaxLoadMores == 1

\* const LOCATION_EXPIRATION_MS = 15 * 60 * 1000; // 15 minutes
LOCATION_EXPIRATION_MS == 15 * 60 * 1000

Languages == {"en", "es"}

\* Positions the geolocation API reports.
Positions == {[lat |-> 48, lon |-> 2], [lat |-> 41, lon |-> 12]}

\* The instants at which the program reads the clock.
ClockReadings == {0, LOCATION_EXPIRATION_MS, LOCATION_EXPIRATION_MS + 1}

\* What findNearbyPlaces resolves with for a first page and for a further page.
FoundLists == {<<>>, <<"a">>}
MoreLists == {<<>>, <<"b">>}

FetchIds == 1..MaxFetches
LoadMoreIds == 1..MaxLoadMores

\* JSON.stringify(locationData): the members in the order lat, lon, timestamp
JSONStringify(locationData) ==
    [json |-> <<locationData.lat, locationData.lon, locationData.timestamp>>]

\* JSON.parse(storedData) as StoredLocation
JSONParse(storedData) ==
    [lat |-> storedData.json[1], lon |-> storedData.json[2],
     timestamp |-> storedData.json[3]]

getValidLocationStrict(store, t) ==
    IF store = None
    THEN [value |-> None, storage |-> store]
    ELSE LET locationData == JSONParse(store)
             isExpired == (t - locationData.timestamp) >= LOCATION_EXPIRATION_MS IN
         IF isExpired
         THEN [value |-> None, storage |-> None]
         ELSE [value |-> [tag |-> "location"] @@ locationData, storage |-> store]

\* getValidLocation(): the value returned and what is left in local storage
getValidLocation(store, t) ==
    IF store = None
    THEN [value |-> None, storage |-> store]
    ELSE LET locationData == JSONParse(store)
             isExpired == (t - locationData.timestamp) > LOCATION_EXPIRATION_MS IN
         IF isExpired
         THEN [value |-> None, storage |-> None]
         ELSE [value |-> [tag |-> "location"] @@ locationData, storage |-> store]

CacheHitOtherLanguage(cache, lang) == cache # None /\ cache.language # lang

\* if (sessionCache && sessionCache.language === language)
CacheHit(cache, lang) == cache # None /\ cache.language = lang

\* The state setters of a call reach the component only while the instance
\* that made the call is mounted: `live` is cleared when it unmounts.
Orphaned(calls) ==
    [c \in DOMAIN calls |->
        IF calls[c].pc \in {"unborn", "done"} THEN calls[c]
        ELSE [calls[c] EXCEPT !.live = FALSE]]

NoFetch == [pc |-> "unborn"]
NoLoadMore == [pc |-> "unborn"]

\* A call that has returned leaves nothing behind.
FetchDone == [pc |-> "done"]
LoadMoreDone == [pc |-> "done"]

FreeFetch(f) ==
    /\ fetches[f].pc = "unborn"
    /\ \A g \in FetchIds : g < f => fetches[g].pc # "unborn"

FreeLoadMore(k) ==
    /\ loadMores[k].pc = "unborn"
    /\ \A g \in LoadMoreIds : g < k => loadMores[g].pc # "unborn"

Placeholder(name) == [name |-> name, imageUrl |-> "undefined"]

List(items) == [tag |-> "list", items |-> items]

\* fetchAndDisplayPlaces(latitude, longitude) up to `await findNearbyPlaces(...)`:
\* the record of the call
FetchCall(live, lang, lat, lon, origin, age) ==
    [pc |-> "finding", live |-> live, language |-> lang, lat |-> lat,
     lon |-> lon, origin |-> origin, age |-> age, fetched |-> <<>>]

\* The component is mounted: fresh useState values, effects scheduled.
Mount ==
    /\ ~mounted
    /\ mounted' = TRUE
    /\ effectPending' = TRUE
    /\ loadingState' = "idle"
    /\ isLoadingMore' = FALSE
    /\ hasMore' = TRUE
    /\ coordinates' = None
    /\ places' = None
    /\ UNCHANGED <<now, storage, sessionCache, language, fetches,
                   loadMores, findCalls, imageCalls, lastSaved>>
    /\ lastGet' = None
    /\ UNCHANGED notNearby

\* The component is unmounted (the user switches tabs); its state is dropped.
Unmount ==
    /\ mounted
    /\ mounted' = FALSE
    /\ effectPending' = FALSE
    /\ loadingState' = "idle"
    /\ isLoadingMore' = FALSE
    /\ hasMore' = TRUE
    /\ coordinates' = None
    /\ places' = None
    /\ fetches' = Orphaned(fetches)
    /\ loadMores' = Orphaned(loadMores)
    /\ UNCHANGED <<now, storage, sessionCache, language, findCalls, imageCalls,
                   lastSaved>>
    /\ lastGet' = None
    /\ UNCHANGED notNearby

\* The language of the context changes; a mounted component re-renders and
\* its effect on [language, t, fetchAndDisplayPlaces] is scheduled.
ChangeLanguage ==
    /\ \E l \in Languages \ {language} : language' = l
    /\ effectPending' = mounted
    /\ UNCHANGED <<now, storage, sessionCache, mounted, loadingState,
                   isLoadingMore, hasMore, coordinates, places, fetches, loadMores, findCalls, imageCalls, lastSaved>>
    /\ lastGet' = None
    /\ UNCHANGED notNearby

\* Time passes.
Tick ==
    /\ \E t \in ClockReadings : t > now /\ now' = t
    /\ UNCHANGED <<storage, sessionCache, language, mounted, effectPending, loadingState, isLoadingMore, hasMore,
                   coordinates, places, fetches, loadMores,
                   findCalls, imageCalls, lastSaved>>
    /\ lastGet' = None
    /\ UNCHANGED notNearby

\* useEffect(() => { ... }, [language, t, fetchAndDisplayPlaces])
RunEffect ==
    /\ mounted
    /\ effectPending
    /\ effectPending' = FALSE
    /\ IF CacheHit(sessionCache, language)
       THEN /\ places' = List(sessionCache.places)
            /\ hasMore' = sessionCache.hasMore
            /\ coordinates' = [tag |-> "coords"] @@ sessionCache.coordinates
            /\ loadingState' = "idle"
            /\ lastGet' = [tag |-> "restored", findCalls |-> findCalls,
                           imageCalls |-> imageCalls]
            /\ UNCHANGED <<storage, fetches, findCalls>>
       ELSE LET validLocation == getValidLocation(storage, now) IN
            /\ storage' = validLocation.storage
            /\ lastGet' = [tag |-> "get", entry |-> storage, at |-> now,
                           value |-> validLocation.value,
                           after |-> validLocation.storage,
                           findCalls |-> findCalls, imageCalls |-> imageCalls]
            /\ IF validLocation.value # None
               THEN /\ places' = None
                    /\ hasMore' = TRUE
                    /\ coordinates' = [tag |-> "coords", lat |-> validLocation.value.lat,
                                       lon |-> validLocation.value.lon]
                    /\ \E f \in FetchIds :
                         /\ FreeFetch(f)
                         /\ fetches' = [fetches EXCEPT ![f] =
                               FetchCall(TRUE, language, validLocation.value.lat,
                                         validLocation.value.lon, "effect",
                                         now - validLocation.value.timestamp)]
                    /\ loadingState' = "findingPlaces"
                    /\ findCalls' = findCalls + 1
               ELSE UNCHANGED <<places, hasMore, coordinates, fetches,
                                loadingState, findCalls>>
    /\ UNCHANGED <<now, sessionCache, language, mounted, isLoadingMore,
                   loadMores, imageCalls, lastSaved>>
    /\ UNCHANGED notNearby

\* handleFindPlaces()
HandleFindPlaces ==
    /\ mounted
    /\ loadingState = "idle"
    /\ sessionCache' = None
    /\ places' = None
    /\ hasMore' = TRUE
    /\ \E hasGeolocation \in BOOLEAN :
         IF hasGeolocation
         THEN /\ loadingState' = "gettingLocation"
              /\ \E f \in FetchIds :
                   /\ FreeFetch(f)
                   /\ fetches' = [fetches EXCEPT ![f] =
                         [pc |-> "locating", live |-> TRUE,
                          language |-> language]]
         ELSE /\ loadingState' = "idle"
              /\ fetches' = fetches
    /\ UNCHANGED <<now, storage, language, mounted, effectPending,
                   isLoadingMore, coordinates, loadMores, findCalls,
                   imageCalls, lastSaved>>
    /\ lastGet' = None
    /\ UNCHANGED notNearby

\* The success callback of getCurrentPosition: saveLocation, setCoordinates,
\* fetchAndDisplayPlaces
GeoSuccess ==
    \E f \in FetchIds, position \in Positions, setItemThrows \in BOOLEAN :
      LET g == fetches[f]
          locationData == [lat |-> position.lat, lon |-> position.lon,
                           timestamp |-> now] IN
      /\ g.pc = "locating"
      /\ IF setItemThrows
         THEN UNCHANGED <<storage, lastSaved>>
         ELSE /\ storage' = JSONStringify(locationData)
              /\ lastSaved' = [tag |-> "location"] @@ locationData
      /\ fetches' = [fetches EXCEPT ![f] =
                        FetchCall(g.live, g.language, position.lat,
                                  position.lon, "geo", 0)]
      /\ findCalls' = findCalls + 1
      /\ IF g.live
         THEN /\ coordinates' = [tag |-> "coords", lat |-> position.lat,
                                 lon |-> position.lon]
              /\ loadingState' = "findingPlaces"
         ELSE UNCHANGED <<coordinates, loadingState>>
      /\ UNCHANGED <<now, sessionCache, language, mounted, effectPending, isLoadingMore, hasMore, places, loadMores,
                     imageCalls>>
      /\ lastGet' = None
      /\ UNCHANGED notNearby

\* The error callback of getCurrentPosition
GeoError ==
    \E f \in FetchIds :
      /\ fetches[f].pc = "locating"
      /\ fetches' = [fetches EXCEPT ![f] = FetchDone]
      /\ loadingState' = IF fetches[f].live THEN "idle" ELSE loadingState
      /\ UNCHANGED <<now, storage, sessionCache, language, mounted, effectPending, isLoadingMore, hasMore, coordinates, places,
                     loadMores, findCalls, imageCalls, lastSaved>>
      /\ lastGet' = None
      /\ UNCHANGED notNearby

\* fetchAndDisplayPlaces after `await findNearbyPlaces(...)` resolved
FindResolved ==
    \E f \in FetchIds, fetchedPlaces \in FoundLists :
      /\ fetches[f].pc = "finding"
      /\ IF Len(fetchedPlaces) = 0
         THEN /\ fetches' = [fetches EXCEPT ![f] = FetchDone]
              /\ imageCalls' = imageCalls
              /\ IF fetches[f].live
                 THEN /\ places' = List(<<>>)
                      /\ loadingState' = "idle"
                      /\ hasMore' = FALSE
                 ELSE UNCHANGED <<places, loadingState, hasMore>>
         ELSE /\ fetches' = [fetches EXCEPT ![f].pc = "images",
                                            ![f].fetched = fetchedPlaces]
              /\ imageCalls' = imageCalls + Len(fetchedPlaces)
              /\ hasMore' = hasMore
              /\ IF fetches[f].live
                 THEN /\ places' = List([i \in 1..Len(fetchedPlaces) |->
                                           Placeholder(fetchedPlaces[i])])
                      /\ loadingState' = "generatingImages"
                 ELSE UNCHANGED <<places, loadingState>>
      /\ UNCHANGED <<now, storage, sessionCache, language, mounted, effectPending, isLoadingMore, coordinates, loadMores, findCalls, lastSaved>>
      /\ lastGet' = None
      /\ UNCHANGED notNearby

\* fetchAndDisplayPlaces when `await findNearbyPlaces(...)` rejected: the catch
FindRejected ==
    \E f \in FetchIds :
      /\ fetches[f].pc = "finding"
      /\ fetches' = [fetches EXCEPT ![f] = FetchDone]
      /\ loadingState' = IF fetches[f].live THEN "idle" ELSE loadingState
      /\ UNCHANGED <<now, storage, sessionCache, language, mounted, effectPending, isLoadingMore, hasMore, coordinates, places,
                     loadMores, findCalls, imageCalls,
                     lastSaved>>
      /\ lastGet' = None
      /\ UNCHANGED notNearby

\* fetchAndDisplayPlaces after `await Promise.all(imageGenerationPromises)`
ImagesSettled ==
    \E f \in FetchIds :
      /\ fetches[f].pc = "images"
      /\ \E imageGenerationResults \in
              [1..Len(fetches[f].fetched) -> {"image", "undefined"}] :
           LET finalPlaces == [i \in 1..Len(fetches[f].fetched) |->
                                 [name |-> fetches[f].fetched[i],
                                  imageUrl |-> imageGenerationResults[i]]] IN
           /\ sessionCache' = [tag |-> "cache",
                               places |-> finalPlaces,
                               language |-> fetches[f].language,
                               hasMore |-> TRUE,
                               coordinates |-> [lat |-> fetches[f].lat,
                                                lon |-> fetches[f].lon]]
           /\ IF fetches[f].live
              THEN /\ places' = List(finalPlaces)
                   /\ loadingState' = "idle"
              ELSE UNCHANGED <<places, loadingState>>
      /\ fetches' = [fetches EXCEPT ![f] = FetchDone]
      /\ UNCHANGED <<now, storage, language, mounted, effectPending,
                     isLoadingMore, hasMore, coordinates, loadMores,
                     findCalls, imageCalls, lastSaved>>
      /\ lastGet' = None
      /\ UNCHANGED notNearby

\* handleLoadMore() up to `await findNearbyPlaces(...)`
HandleLoadMore ==
    \E k \in LoadMoreIds :
      /\ FreeLoadMore(k)
      /\ mounted
      /\ ~isLoadingMore /\ coordinates # None /\ places # None
      /\ isLoadingMore' = TRUE
      /\ loadMores' = [loadMores EXCEPT ![k] =
                          [pc |-> "finding", live |-> TRUE,
                           newPlacesStartIndex |-> Len(places.items),
                           fetched |-> <<>>]]
      /\ findCalls' = findCalls + 1
      /\ UNCHANGED <<now, storage, sessionCache, language, mounted, effectPending, loadingState, hasMore, coordinates, places,
                     fetches, imageCalls, lastSaved>>
      /\ lastGet' = None
      /\ UNCHANGED notNearby

\* handleLoadMore after `await findNearbyPlaces(...)` resolved
MoreResolved ==
    \E k \in LoadMoreIds, newFetchedPlaces \in MoreLists :
      /\ loadMores[k].pc = "finding"
      /\ IF Len(newFetchedPlaces) = 0
         THEN /\ loadMores' = [loadMores EXCEPT ![k] = LoadMoreDone]
              /\ sessionCache' = IF sessionCache # None
                                 THEN [sessionCache EXCEPT !.hasMore = FALSE]
                                 ELSE sessionCache
              /\ imageCalls' = imageCalls
              /\ places' = places
              /\ IF loadMores[k].live
                 THEN hasMore' = FALSE /\ isLoadingMore' = FALSE
                 ELSE UNCHANGED <<hasMore, isLoadingMore>>
         ELSE /\ loadMores' = [loadMores EXCEPT ![k].pc = "images",
                                                ![k].fetched = newFetchedPlaces]
              /\ imageCalls' = imageCalls + Len(newFetchedPlaces)
              /\ places' =
                   IF loadMores[k].live
                   THEN List((IF places = None THEN <<>> ELSE places.items) \o
                             [i \in 1..Len(newFetchedPlaces) |->
                                Placeholder(newFetchedPlaces[i])])
                   ELSE places
              /\ UNCHANGED <<sessionCache, hasMore, isLoadingMore>>
      /\ UNCHANGED <<now, storage, language, mounted, effectPending,
                     loadingState, coordinates, fetches, findCalls, lastSaved>>
      /\ lastGet' = None
      /\ UNCHANGED notNearby

\* handleLoadMore when `await findNearbyPlaces(...)` rejected: catch, finally
MoreRejected ==
    \E k \in LoadMoreIds :
      /\ loadMores[k].pc = "finding"
      /\ loadMores' = [loadMores EXCEPT ![k] = LoadMoreDone]
      /\ isLoadingMore' = IF loadMores[k].live THEN FALSE ELSE isLoadingMore
      /\ UNCHANGED <<now, storage, sessionCache, language, mounted, effectPending, loadingState, hasMore, coordinates, places,
                     fetches, findCalls, imageCalls, lastSaved>>
      /\ lastGet' = None
      /\ UNCHANGED notNearby

\* handleLoadMore after `await Promise.all(imageGenerationPromises)`: the
\* setPlaces updater (run for a live instance only) and the finally block
MoreImagesSettled ==
    \E k \in LoadMoreIds :
      /\ loadMores[k].pc = "images"
      /\ \E imageGenerationResults \in
              [1..Len(loadMores[k].fetched) -> {"image", "undefined"}] :
           IF loadMores[k].live /\ places # None
           THEN LET start == loadMores[k].newPlacesStartIndex
                    updatedPlaces ==
                      [i \in 1..Len(places.items) |->
                         IF i > start /\ i - start <= Len(loadMores[k].fetched)
                         THEN [places.items[i] EXCEPT
                                 !.imageUrl = imageGenerationResults[i - start]]
                         ELSE places.items[i]] IN
                /\ places' = List(updatedPlaces)
                /\ sessionCache' = IF sessionCache # None
                                   THEN [sessionCache EXCEPT !.places = updatedPlaces]
                                   ELSE sessionCache
           ELSE UNCHANGED <<places, sessionCache>>
      /\ loadMores' = [loadMores EXCEPT ![k] = LoadMoreDone]
      /\ isLoadingMore' = IF loadMores[k].live THEN FALSE ELSE isLoadingMore
      /\ UNCHANGED <<now, storage, language, mounted, effectPending,
                     loadingState, hasMore, coordinates, fetches,
                     findCalls, imageCalls, lastSaved>>
      /\ lastGet' = None
      /\ UNCHANGED notNearby

NearbyInit ==
    /\ now = 0
    /\ storage = None
    /\ sessionCache = None
    /\ language = "en"
    /\ mounted = FALSE
    /\ effectPending = FALSE
    /\ loadingState = "idle"
    /\ isLoadingMore = FALSE
    /\ hasMore = TRUE
    /\ coordinates = None
    /\ places = None
    /\ fetches = [f \in FetchIds |-> NoFetch]
    /\ loadMores = [k \in LoadMoreIds |-> NoLoadMore]
    /\ findCalls = 0
    /\ imageCalls = 0
    /\ lastGet = None
    /\ lastSaved = None

\* The session cache: the effect, handleFindPlaces, fetchAndDisplayPlaces and
\* handleLoadMore.  The clock is not advanced, so a stored location stays
\* valid; handlePlayPause, which adds audio data to the cached places, is
\* left out.
NearbyNext ==
    \/ Mount
    \/ Unmount
    \/ ChangeLanguage
    \/ RunEffect
    \/ HandleFindPlaces
    \/ GeoSuccess
    \/ GeoError
    \/ FindResolved
    \/ FindRejected
    \/ ImagesSettled
    \/ HandleLoadMore
    \/ MoreResolved
    \/ MoreRejected
    \/ MoreImagesSettled

\* The stored location: every handler that reads or writes local storage,
\* and the clock.
LocationNext ==
    \/ Mount
    \/ Unmount
    \/ ChangeLanguage
    \/ Tick
    \/ RunEffect
    \/ HandleFindPlaces
    \/ GeoSuccess
    \/ GeoError
    \/ FindResolved
    \/ FindRejected
    \/ ImagesSettled

\* Local storage outlives the page: a location saved by an earlier session
\* may be there when the module is loaded.
StoredEarlier ==
    /\ \E position \in Positions :
         LET locationData == [lat |-> position.lat, lon |-> position.lon,
                              timestamp |-> 0] IN
         /\ storage = JSONStringify(locationData)
         /\ lastSaved = [tag |-> "location"] @@ locationData
    /\ now = 0
    /\ sessionCache = None
    /\ language = "en"
    /\ mounted = FALSE
    /\ effectPending = FALSE
    /\ loadingState = "idle"
    /\ isLoadingMore = FALSE
    /\ hasMore = TRUE
    /\ coordinates = None
    /\ places = None
    /\ fetches = [f \in FetchIds |-> NoFetch]
    /\ loadMores = [k \in LoadMoreIds |-> NoLoadMore]
    /\ findCalls = 0
    /\ imageCalls = 0
    /\ lastGet = None

-----------------------------------------------------------------------------
(* Claims about NearbyPlaces *)

\* C7: when the cache/location effect has just run while sessionCache is
\* non-null and sessionCache.language is the current language, places,
\* hasMore and coordinates are those of the cache, loadingState is 'idle',
\* and the effect issued no findNearbyPlaces and no generateImageForPlace call.
C7_CacheHitRestores ==
    (lastGet # None /\ sessionCache # None /\ sessionCache.language = language)
        => /\ places = List(sessionCache.places)
           /\ hasMore = sessionCache.hasMore
           /\ coordinates = [tag |-> "coords"] @@ sessionCache.coordinates
           /\ loadingState = "idle"
           /\ findCalls = lastGet.findCalls
           /\ imageCalls = lastGet.imageCalls

\* C7 happens: the effect has just restored a non-empty list from the cache
\* of an earlier mount.
C7_Witness ==
    /\ lastGet # None
    /\ sessionCache # None
    /\ sessionCache.language = language
    /\ Len(sessionCache.places) > 0
    /\ places = List(sessionCache.places)
    /\ findCalls > 0

C8_ExpiredRemoved ==
    /\ lastGet # None
    /\ lastGet.tag = "get"
    /\ lastGet.entry # None
    /\ lastGet.value = None
    /\ storage = None

-----------------------------------------------------------------------------
(* findNearbyPlaces and translatePlaceDetails: the handling of the response *)

\* Largest number of elements of a JSON array in a response, and of places
\* passed to translatePlaceDetails.
MaxPlaces == 2

\* Largest number of grounding chunks of a response.
MaxChunks == 2

\* A text is a sequence of lexical units: a whitespace character, a run of
\* three backticks, the word json, a bracket, a comma, a JSON value other
\* than an array, and a word of prose.
Whitespace == [t |-> "ws"]
Backticks == [t |-> "fence"]
JsonWord == [t |-> "json"]
OpenBracket == [t |-> "["]
CloseBracket == [t |-> "]"]
Comma == [t |-> ","]
Prose == [t |-> "prose"]
Value(v) == [t |-> "value", v |-> v]

\* JSON values: {"name": ..., "description": ...}, {"description": ...},
\* null and a number
ObjectValue(name) == [type |-> "object", name |-> name, description |-> "d"]
NamelessObject == [type |-> "object", description |-> "d"]
NullValue == [type |-> "null"]
NumberValue == [type |-> "number"]
ArrayValue(items) == [type |-> "array", items |-> items]

RECURSIVE trimStart(_)
trimStart(s) ==
    IF s # <<>> /\ s[1].t = "ws" THEN trimStart(Tail(s)) ELSE s

RECURSIVE trimEnd(_)
trimEnd(s) ==
    IF s # <<>> /\ s[Len(s)].t = "ws"
    THEN trimEnd(SubSeq(s, 1, Len(s) - 1))
    ELSE s

\* String.prototype.trim
trim(s) == trimEnd(trimStart(s))

\* .replace(/^(3 backticks)(json)?\s*/, ''): the opening fence is removed
ReplaceOpeningFence(s) ==
    IF s # <<>> /\ s[1].t = "fence"
    THEN LET afterTicks == Tail(s)
             afterWord == IF afterTicks # <<>> /\ afterTicks[1].t = "json"
                          THEN Tail(afterTicks)
                          ELSE afterTicks IN
         trimStart(afterWord)
    ELSE s

\* .replace(/(3 backticks)$/, ''): the closing fence is removed
ReplaceClosingFence(s) ==
    IF s # <<>> /\ s[Len(s)].t = "fence" THEN SubSeq(s, 1, Len(s) - 1) ELSE s

\* const rawText = response.text.trim();
\* const cleanedText = rawText.replace(...).replace(...).trim();
CleanedText(text) == trim(ReplaceClosingFence(ReplaceOpeningFence(trim(text))))

RECURSIVE WithoutWhitespace(_)
\* JSON.parse skips the whitespace between the tokens.
WithoutWhitespace(s) ==
    IF s = <<>> THEN <<>>
    ELSE IF s[1].t = "ws" THEN WithoutWhitespace(Tail(s))
    ELSE <<s[1]>> \o WithoutWhitespace(Tail(s))

\* JSON.parse(text): the value, or a SyntaxError (ok = FALSE)
JSONParseText(text) ==
    LET tokens == WithoutWhitespace(text)
        n == Len(tokens) IN
    IF n = 1 /\ tokens[1].t = "value"
    THEN [ok |-> TRUE, value |-> tokens[1].v]
    ELSE IF n >= 2 /\ tokens[1].t = "[" /\ tokens[n].t = "]"
    THEN LET inner == SubSeq(tokens, 2, n - 1)
             m == Len(inner) IN
         IF m = 0
         THEN [ok |-> TRUE, value |-> ArrayValue(<<>>)]
         ELSE IF /\ m % 2 = 1
                 /\ \A i \in 1..m : inner[i].t = (IF i % 2 = 1 THEN "value" ELSE ",")
         THEN [ok |-> TRUE,
               value |-> ArrayValue([i \in 1..((m + 1) \div 2) |-> inner[2 * i - 1].v])]
         ELSE [ok |-> FALSE]
    ELSE [ok |-> FALSE]

\* Grounding chunks: a web chunk, and Maps chunks with and without a title.
WebChunk == [maps |-> None]
MapsChunk(title, uri) == [maps |-> [title |-> title, uri |-> uri]]
UntitledMapsChunk(uri) == [maps |-> [uri |-> uri]]

\* place.name is a string
HasName(place) == place.type = "object" /\ "name" \in DOMAIN place

Threw(error) == [tag |-> "threw", error |-> error]
Returned(value) == [tag |-> "returned", value |-> value]

RECURSIVE find(_, _)
\* groundingChunks.find(chunk => chunk.maps &&
\*     chunk.maps.title.toLowerCase().includes(place.name.toLowerCase()))
find(groundingChunks, place) ==
    IF groundingChunks = <<>> THEN Returned(None)
    ELSE LET chunk == Head(groundingChunks) IN
         IF chunk.maps = None THEN find(Tail(groundingChunks), place)
         ELSE IF "title" \notin DOMAIN chunk.maps THEN Threw("TypeError")
         ELSE IF ~HasName(place) THEN Threw("TypeError")
         ELSE IF includes(toLowerCase(chunk.maps.title), toLowerCase(place.name))
         THEN Returned(chunk)
         ELSE find(Tail(groundingChunks), place)

RECURSIVE map(_, _)
\* places.map(place => ({ ...place, mapUri: matchingChunk ? ... : '#' }))
map(placeList, groundingChunks) ==
    IF placeList = <<>> THEN Returned(<<>>)
    ELSE LET place == Head(placeList)
             matchingChunk == find(groundingChunks, place) IN
         IF matchingChunk.tag = "threw" THEN matchingChunk
         ELSE LET rest == map(Tail(placeList), groundingChunks) IN
              IF rest.tag = "threw" THEN rest
              ELSE Returned(<<[place |-> place,
                               mapUri |-> IF matchingChunk.value # None
                                          THEN matchingChunk.value.maps.uri
                                          ELSE "#"]>> \o rest.value)

\* findNearbyPlaces(...) once callGeminiWithRetry has settled
findNearbyPlaces(response) ==
    IF response.tag = "rejected" THEN Threw("ApiError")
    ELSE IF ~response.hasText THEN Threw("TypeError")
    ELSE LET cleanedText == CleanedText(response.text) IN
         IF cleanedText = <<>> THEN Returned(<<>>)
         ELSE IF ~startsWith(cleanedText, <<OpenBracket>>) THEN Returned(<<>>)
         ELSE LET parsed == JSONParseText(cleanedText) IN
              IF ~parsed.ok THEN Returned(<<>>)
              ELSE map(parsed.value.items, response.groundingChunks)

\* The names and titles of the responses explored.
PlaceNames == {<<"A", "b">>}
Titles == {<<"x", "a", "B">>, <<"c">>}

PlaceValues ==
    {ObjectValue(n) : n \in PlaceNames} \cup {NamelessObject, NullValue}

Chunks ==
    {WebChunk, UntitledMapsChunk("u0")} \cup
    {MapsChunk(title, "u1") : title \in Titles}

RECURSIVE Separated(_)
\* The elements, separated by commas.
Separated(values) ==
    IF values = <<>> THEN <<>>
    ELSE IF Len(values) = 1 THEN <<Value(values[1])>>
    ELSE <<Value(values[1]), Comma>> \o Separated(Tail(values))

ArrayText(values) == <<OpenBracket>> \o Separated(values) \o <<CloseBracket>>

SeqsUpTo(S, n) == UNION {[1..k -> S] : k \in 0..n}

\* What the model may write where a JSON array was asked for.
Bodies(values, n) ==
    {ArrayText(v) : v \in SeqsUpTo(values, n)} \cup
    { <<>>, <<Prose>>, <<Prose, OpenBracket, CloseBracket>>,
      <<OpenBracket, Prose, CloseBracket>>,
      <<OpenBracket, Comma, CloseBracket>>,
      <<Value(NullValue)>>, <<Value(NumberValue)>>,
      <<Value(NamelessObject)>> } \cup
    {<<OpenBracket, Value(v)>> : v \in values}

Openings ==
    { <<>>, <<Whitespace>>, <<Backticks, Whitespace>>,
      <<Backticks, JsonWord, Whitespace>>, <<Backticks, Prose, Whitespace>> }

Closings ==
    { <<>>, <<Whitespace>>, <<Whitespace, Backticks>>,
      <<Backticks, Whitespace>> }

NoText == [tag |-> "response", hasText |-> FALSE, text |-> <<>>,
           groundingChunks |-> <<>>]
Rejected == [tag |-> "rejected"]

FindResponses ==
    { [tag |-> "response", hasText |-> TRUE,
       text |-> opening \o body \o closing, groundingChunks |-> chunks] :
         opening \in Openings, body \in Bodies(PlaceValues, MaxPlaces),
         closing \in Closings, chunks \in SeqsUpTo(Chunks, MaxChunks) }
    \cup {NoText, Rejected}

FindNearby ==
    /\ fIn = None
    /\ \E response \in FindResponses :
         /\ fIn' = response
         /\ fOut' = findNearbyPlaces(response)
    /\ UNCHANGED <<tIn, tOut>>
    /\ UNCHANGED notResponse

FindNext == FindNearby

SameLengthAnyValue(translated, placeList) ==
    translated.type = "array"

\* Array.isArray(translated) && translated.length === places.length
SameLength(translated, placeList) ==
    translated.type = "array" /\ Len(translated.items) = Len(placeList)

\* translatePlaceDetails(places, languageName); response is what
\* callGeminiWithRetry settles with if it is called
translatePlaceDetails(placeList, languageName, response) ==
    IF toLowerCase(languageName) = <<"e", "n", "g", "l", "i", "s", "h">>
    THEN [tag |-> "returned", value |-> placeList, apiCalled |-> FALSE]
    ELSE IF response.tag = "rejected"
    THEN [tag |-> "threw", error |-> "ApiError", apiCalled |-> TRUE]
    ELSE IF ~response.hasText
    THEN [tag |-> "threw", error |-> "TypeError", apiCalled |-> TRUE]
    ELSE LET jsonText == trim(response.text)
             parsed == JSONParseText(jsonText)
             fallback == [tag |-> "returned", value |-> placeList,
                          apiCalled |-> TRUE] IN
         IF ~parsed.ok THEN fallback
         ELSE IF SameLength(parsed.value, placeList)
         THEN [tag |-> "returned", value |-> parsed.value.items,
               apiCalled |-> TRUE]
         \* translated.length of null throws inside the try: the catch
         ELSE IF parsed.value.type = "null" THEN fallback
         ELSE fallback

LanguageNames ==
    { <<"E", "n", "g", "l", "i", "s", "h">>,
      <<"E", "N", "G", "L", "I", "S", "H">>,
      <<"e", "n", "g", "l", "i", "s", "H">>,
      <<"E", "n", "g", "l", "i", "s", "h", " ">>,
      <<"E", "s", "p", "a", "n", "o", "l">>,
      <<"F", "r", "a", "n", "c", "a", "i", "s">> }

InputPlaces == {ObjectValue(n) : n \in PlaceNames \cup {<<"C">>}}

TranslatedValues == {ObjectValue(<<"T">>), NullValue}

TranslateResponses ==
    { [tag |-> "response", hasText |-> TRUE,
       text |-> opening \o body \o closing, groundingChunks |-> <<>>] :
         opening \in {<<>>, <<Whitespace>>},
         body \in Bodies(TranslatedValues, MaxPlaces + 1),
         closing \in {<<>>, <<Whitespace>>} }
    \cup {NoText, Rejected}

Translate ==
    /\ tIn = None
    /\ \E placeList \in SeqsUpTo(InputPlaces, MaxPlaces),
          languageName \in LanguageNames, response \in TranslateResponses :
         /\ tIn' = [tag |-> "args", places |-> placeList,
                    languageName |-> languageName, response |-> response]
         /\ tOut' = translatePlaceDetails(placeList, languageName, response)
    /\ UNCHANGED <<fIn, fOut>>
    /\ UNCHANGED notResponse

TranslateNext == Translate

ResponseInit == fIn = None /\ fOut = None /\ tIn = None /\ tOut = None

-----------------------------------------------------------------------------
(* Claims about findNearbyPlaces and translatePlaceDetails *)

\* The response text of a call that got a response with a text.
FindText == CleanedText(fIn.text)

\* The cleaned text is empty, does not start with '[', or is not JSON.
Unusable(cleanedText) ==
    \/ cleanedText = <<>>
    \/ cleanedText[1].t # "["
    \/ ~JSONParseText(cleanedText).ok

\* C9: findNearbyPlaces returns an empty list, and does not throw, when the
\* response text without its code fence, trimmed, is empty, does not start
\* with '[' or is not JSON; otherwise it returns one entry per parsed place,
\* in order.
C9_EmptyOrOnePerPlace ==
    (fIn # None /\ fIn.tag = "response" /\ fIn.hasText) =>
        IF Unusable(FindText)
        THEN fOut = Returned(<<>>)
        ELSE LET parsedPlaces == JSONParseText(FindText).value.items IN
             /\ fOut.tag = "returned"
             /\ Len(fOut.value) = Len(parsedPlaces)
             /\ \A i \in 1..Len(parsedPlaces) :
                  fOut.value[i].place = parsedPlaces[i]

\* The part of C9 the code keeps: an unusable text gives an empty list, and
\* a returned list has one entry per parsed place, in order.
C9_EmptyWhenUnusable ==
    (fIn # None /\ fIn.tag = "response" /\ fIn.hasText) =>
        IF Unusable(FindText)
        THEN fOut = Returned(<<>>)
        ELSE LET parsedPlaces == JSONParseText(FindText).value.items IN
             fOut.tag = "returned" =>
                 /\ Len(fOut.value) = Len(parsedPlaces)
                 /\ \A i \in 1..Len(parsedPlaces) :
                      fOut.value[i].place = parsedPlaces[i]

\* The language name is English in some letter case.
IsEnglish(languageName) ==
    /\ Len(languageName) = 7
    /\ \A i \in 1..7 :
         languageName[i] \in
            { <<"e", "n", "g", "l", "i", "s", "h">>[i],
              <<"E", "N", "G", "L", "I", "S", "H">>[i] }

\* The answer is a JSON array with as many elements as the input.
GoodAnswer(response, placeList) ==
    /\ response.tag = "response"
    /\ response.hasText
    /\ JSONParseText(response.text).ok
    /\ JSONParseText(response.text).value.type = "array"
    /\ Len(JSONParseText(response.text).value.items) = Len(placeList)

\* C10: a list returned by translatePlaceDetails has the length of the input
\* list; for English in any letter case it is the input and the API was not
\* called; when the answer is not a JSON array of the input's length, or is
\* not JSON, it is the input.
C10_SameLength ==
    (tOut # None /\ tOut.tag = "returned") =>
        /\ Len(tOut.value) = Len(tIn.places)
        /\ IsEnglish(tIn.languageName) =>
              (tOut.value = tIn.places /\ ~tOut.apiCalled)
        /\ ~GoodAnswer(tIn.response, tIn.places) => tOut.value = tIn.places

\* C10 happens: the model answered with an array longer than the input and
\* the untranslated input came back.
C10_Witness ==
    /\ tOut # None
    /\ tOut.tag = "returned"
    /\ tOut.apiCalled
    /\ Len(tIn.places) > 0
    /\ tIn.response.tag = "response"
    /\ tIn.response.hasText
    /\ JSONParseText(tIn.response.text).ok
    /\ JSONParseText(tIn.response.text).value.type = "array"
    /\ Len(JSONParseText(tIn.response.text).value.items) = Len(tIn.places) + 1
    /\ tOut.value = tIn.places

\* The shortcut happens: ENGLISH in capitals, no API call.
C10_EnglishShortcut ==
    /\ tOut # None
    /\ tOut.tag = "returned"
    /\ tIn.languageName[2] = "N"
    /\ ~tOut.apiCalled
    /\ Len(tOut.value) > 0

-----------------------------------------------------------------------------
(* getTopPlaces: the mapping of the city document *)

\* Largest number of entries of the 'places' field of a city document.
MaxEntries == 2

\* A field of a stored entry is missing or holds a value.
Missing == [present |-> FALSE]
Present(v) == [present |-> TRUE, v |-> v]

\* a || b for an optional string a
OrElse(field, default) ==
    IF field.present /\ field.v # "" THEN field.v ELSE default

\* The entries a city document may hold.
StoredEntries ==
    [name : {Missing, Present(""), Present("Louvre")},
     description : {Missing, Present("d")},
     formatted_address : {Missing},
     types : {Missing, Present(<<>>), Present(<<"">>), Present(<<"museum">>)},
     image_url : {Missing}]

\* Property keys of an object map: integer-like keys and other strings.
MapKeys == {[integer |-> TRUE, k |-> 0], [integer |-> TRUE, k |-> 1],
            [integer |-> FALSE, k |-> 0]}

RECURSIVE Ascending(_)
\* The integer-like keys of a set, in ascending order.
Ascending(keys) ==
    IF keys = {} THEN <<>>
    ELSE LET least == CHOOSE a \in keys : \A b \in keys : a.k <= b.k IN
         <<least>> \o Ascending(keys \ {least})

RECURSIVE SelectOthers(_)
\* The members whose key is not integer-like, in insertion order.
SelectOthers(members) ==
    IF members = <<>> THEN <<>>
    ELSE IF members[1].key.integer THEN SelectOthers(Tail(members))
    ELSE <<members[1]>> \o SelectOthers(Tail(members))

\* Object.values(placesData): integer-like keys in ascending order, then the
\* other keys in insertion order
ObjectValues(members) ==
    LET integerKeys == Ascending({members[i].key : i \in
                          {j \in 1..Len(members) : members[j].key.integer}})
        valueOf(key) == (CHOOSE i \in 1..Len(members) : members[i].key = key)
        others == SelectOthers(members) IN
    [i \in 1..Len(integerKeys) |-> members[valueOf(integerKeys[i])].value] \o
    [i \in 1..Len(others) |-> others[i].value]

\* place => ({ name: place.name || 'Unknown Place', ... }); reading
\* place.types[0] of an entry without types is a TypeError
MapPlace(place) ==
    IF ~place.types.present THEN Threw("TypeError")
    ELSE Returned(
        [name |-> OrElse(place.name, "Unknown Place"),
         description |-> OrElse(place.description, ""),
         formatted_address |-> OrElse(place.formatted_address, ""),
         category |-> IF place.types.v # <<>> /\ place.types.v[1] # ""
                      THEN place.types.v[1] ELSE "Landmark",
         mapUri |-> [q |-> OrElse(place.name, "")],
         imageUrl |-> OrElse(place.image_url, "undefined"),
         audioData |-> "undefined"])

RECURSIVE MapPlaces(_)
\* placesArray.map(...)
MapPlaces(placesArray) ==
    IF placesArray = <<>> THEN Returned(<<>>)
    ELSE LET first == MapPlace(Head(placesArray)) IN
         IF first.tag = "threw" THEN first
         ELSE LET rest == MapPlaces(Tail(placesArray)) IN
              IF rest.tag = "threw" THEN rest
              ELSE Returned(<<first.value>> \o rest.value)

\* getTopPlaces(country, city) once getDoc has resolved with the snapshot
getTopPlaces(documentSnapshot) ==
    IF ~documentSnapshot.exists THEN Returned(<<>>)
    ELSE IF documentSnapshot.places.kind \in {"undefined", "null"}
    THEN Returned(<<>>)
    ELSE LET placesData == documentSnapshot.places
             placesArray == IF placesData.kind = "array"
                            THEN placesData.items
                            ELSE ObjectValues(placesData.members) IN
         MapPlaces(placesArray)

\* Object maps: the entries under distinct keys, in insertion order.
ObjectMaps ==
    {[kind |-> "object", members |-> members] :
       members \in {m \in SeqsUpTo([key : MapKeys, value : StoredEntries],
                                   MaxEntries) :
                      \A i, j \in 1..Len(m) : m[i].key = m[j].key => i = j}}

Snapshots ==
    {[exists |-> FALSE, places |-> [kind |-> "undefined"]]} \cup
    {[exists |-> TRUE, places |-> [kind |-> k]] : k \in {"undefined", "null"}} \cup
    {[exists |-> TRUE, places |-> [kind |-> "array", items |-> items]] :
        items \in SeqsUpTo(StoredEntries, MaxEntries)} \cup
    {[exists |-> TRUE, places |-> p] : p \in ObjectMaps}

GetTopPlaces ==
    /\ gIn = None
    /\ \E documentSnapshot \in Snapshots :
         /\ gIn' = documentSnapshot
         /\ gOut' = getTopPlaces(documentSnapshot)
    /\ UNCHANGED notTopPlaces

TopPlacesInit == gIn = None /\ gOut = None

TopPlacesNext == GetTopPlaces

-----------------------------------------------------------------------------
(* Claims about getTopPlaces *)

\* The stored entries of a snapshot, as a sequence in some order.
StoredOf(snapshot) ==
    IF snapshot.places.kind = "array" THEN snapshot.places.items
    ELSE [i \in 1..Len(snapshot.places.members) |->
            snapshot.places.members[i].value]

\* What the claim says an entry becomes.
Substituted(entry) ==
    [name |-> IF entry.name.present /\ entry.name.v # ""
              THEN entry.name.v ELSE "Unknown Place",
     description |-> IF entry.description.present THEN entry.description.v
                     ELSE "",
     category |-> IF entry.types.present /\ entry.types.v # <<>> /\
                     entry.types.v[1] # ""
                  THEN entry.types.v[1] ELSE "Landmark",
     audioData |-> "undefined"]

Shown(place) ==
    [name |-> place.name, description |-> place.description,
     category |-> place.category, audioData |-> place.audioData]

Occurrences(s, x) == Cardinality({i \in 1..Len(s) : s[i] = x})

\* The returned list holds exactly one place per stored entry.
OnePerEntry(stored, returned) ==
    /\ Len(returned) = Len(stored)
    /\ \A i \in 1..Len(stored) :
         Occurrences([j \in 1..Len(returned) |-> Shown(returned[j])],
                     Substituted(stored[i]))
           = Occurrences([j \in 1..Len(stored) |-> Substituted(stored[j])],
                         Substituted(stored[i]))

\* C11: getTopPlaces returns an empty list when the document does not exist
\* or has no places field, and otherwise one NearbyPlace per stored entry,
\* for an array and for an object map, with 'Unknown Place', '' and
\* 'Landmark' for a missing name, description and category, and audioData
\* undefined.
C11_OnePlacePerEntry ==
    gIn # None =>
        IF ~gIn.exists \/ gIn.places.kind \in {"undefined", "null"}
        THEN gOut = Returned(<<>>)
        ELSE /\ gOut.tag = "returned"
             /\ OnePerEntry(StoredOf(gIn), gOut.value)

\* The part of C11 the code keeps: the empty list for a missing document or
\* field, and one place per entry whenever every entry has a types field.
C11_WhenTypesPresent ==
    gIn # None =>
        IF ~gIn.exists \/ gIn.places.kind \in {"undefined", "null"}
        THEN gOut = Returned(<<>>)
        ELSE (\A i \in 1..Len(StoredOf(gIn)) : StoredOf(gIn)[i].types.present)
                => /\ gOut.tag = "returned"
                   /\ OnePerEntry(StoredOf(gIn), gOut.value)

-----------------------------------------------------------------------------
(* LanguageProvider: the language state and changeLanguage *)

\* Number of changeLanguage calls explored per mount.
MaxChanges == 3

\* SUPPORTED_LANGUAGES, by code (utils/translations)
SUPPORTED_LANGUAGES == {"en", "es", "de"}

\* The own keys of the translations object: one table per supported language
\* (utils/translations)
TranslationTables == SUPPORTED_LANGUAGES

\* Names every object literal inherits from Object.prototype.
InheritedNames == {"constructor"}

\* translations[lang] is truthy: a table, or a member of Object.prototype
Truthy(lang) == lang \in TranslationTables \/ lang \in InheritedNames

\* The strings changeLanguage is called with and local storage may hold.
LanguageArgs == SUPPORTED_LANGUAGES \cup {"fr", "constructor", ""}

\* useState(() => { try { ... } catch { return 'en' } })
InitialLanguage(readable, item) ==
    IF ~readable THEN "en"
    ELSE IF item = None THEN "en"
    ELSE LET savedLanguage == item.value
             isSupported == savedLanguage \in SUPPORTED_LANGUAGES IN
         IF savedLanguage # "" /\ isSupported THEN savedLanguage ELSE "en"

\* LanguageProvider is mounted: the initialiser of the language state runs.
ProviderMount ==
    /\ ~lpMounted
    /\ lpMounted' = TRUE
    /\ \E getItemThrows \in BOOLEAN :
         /\ lpLanguage' = InitialLanguage(~getItemThrows, lpStorage)
         /\ lpInitRead' = [tag |-> "read", readable |-> ~getItemThrows,
                           saved |-> lpStorage]
    /\ lpLastArg' = None
    /\ lpCalls' = 0
    /\ UNCHANGED lpStorage
    /\ UNCHANGED notProvider

\* The page is closed or reloaded; local storage stays.
ProviderUnmount ==
    /\ lpMounted
    /\ lpMounted' = FALSE
    /\ lpLanguage' = "unmounted"
    /\ lpInitRead' = None
    /\ lpLastArg' = None
    /\ lpCalls' = 0
    /\ UNCHANGED lpStorage
    /\ UNCHANGED notProvider

\* changeLanguage(lang)
ChangeLanguageTo(lang) ==
    /\ lpMounted
    /\ lpCalls < MaxChanges
    /\ lpCalls' = lpCalls + 1
    /\ lpLastArg' = [tag |-> "arg", lang |-> lang]
    /\ \E setItemThrows \in BOOLEAN :
         IF Truthy(lang)
         THEN /\ lpStorage' = IF setItemThrows THEN lpStorage
                              ELSE [tag |-> "saved", value |-> lang]
              /\ lpLanguage' = lang
         ELSE /\ lpStorage' = IF setItemThrows THEN lpStorage
                              ELSE [tag |-> "saved", value |-> "en"]
              /\ lpLanguage' = "en"
    /\ UNCHANGED <<lpMounted, lpInitRead>>
    /\ UNCHANGED notProvider

\* Before the provider is mounted.
ProviderIdle ==
    /\ lpMounted = FALSE
    /\ lpLanguage = "unmounted"
    /\ lpInitRead = None
    /\ lpLastArg = None
    /\ lpCalls = 0

ProviderInit == lpStorage = None /\ ProviderIdle

\* Local storage is empty or holds what an earlier version or the user left.
ProviderStored ==
    /\ lpStorage \in {None} \cup
                     {[tag |-> "saved", value |-> l] : l \in LanguageArgs}
    /\ ProviderIdle

ProviderNext ==
    \/ ProviderMount
    \/ ProviderUnmount
    \/ \E lang \in LanguageArgs : ChangeLanguageTo(lang)

-----------------------------------------------------------------------------
(* Claims about LanguageProvider *)

\* What the claim says the language is: the saved value if it is supported
\* and storage is readable, the last argument if it has a translation
\* table, 'en' otherwise.
ClaimedLanguage ==
    IF lpLastArg = None
    THEN IF /\ lpInitRead.readable
            /\ lpInitRead.saved # None
            /\ lpInitRead.saved.value \in SUPPORTED_LANGUAGES
         THEN lpInitRead.saved.value
         ELSE "en"
    ELSE IF lpLastArg.lang \in TranslationTables THEN lpLastArg.lang ELSE "en"

C12_ForOwnKeys ==
    (lpMounted /\ (lpLastArg = None \/ lpLastArg.lang \notin InheritedNames))
        => (lpLanguage \in SUPPORTED_LANGUAGES /\ lpLanguage = ClaimedLanguage)

-----------------------------------------------------------------------------
(* TopPlaces: getCategoryKeyFromRawType and the category filters *)

\* Largest number of places of a search result.
MaxShown == 2

\* const FILTER_KEYS = ['All', 'Favorites', 'Museum', ...]
FILTER_KEYS ==
    <<"All", "Favorites", "Museum", "Park", "Restaurant", "HistoricSite",
      "Cafe", "Shopping", "Landmark">>

\* type.includes(a) || type.includes(b) || ...
IncludesAny(type, words) == \E w \in words : includes(type, w)

MuseumWords ==
    {<<"m", "u", "s", "e", "u", "m">>}

ParkWords ==
    {<<"p", "a", "r", "k">>}

RestaurantWords ==
    {<<"r", "e", "s", "t", "a", "u", "r", "a", "n", "t">>}

CafeWords ==
    {<<"c", "a", "f", "e">>}

ShoppingWords ==
    {<<"s", "h", "o", "p", "p", "i", "n", "g">>,
     <<"s", "t", "o", "r", "e">>,
     <<"m", "a", "r", "k", "e", "t">>}

HistoricSiteWords ==
    {<<"h", "i", "s", "t", "o", "r", "i", "c">>,
     <<"c", "h", "u", "r", "c", "h">>,
     <<"m", "o", "s", "q", "u", "e">>,
     <<"s", "y", "n", "a", "g", "o", "g", "u", "e">>,
     <<"c", "a", "s", "t", "l", "e">>,
     <<"p", "l", "a", "c", "e", "_", "o", "f", "_", "w", "o", "r", "s", "h", "i", "p">>}

LandmarkWords ==
    {<<"l", "a", "n", "d", "m", "a", "r", "k">>,
     <<"t", "o", "u", "r", "i", "s", "t", "_", "a", "t", "t", "r", "a", "c", "t", "i", "o", "n">>,
     <<"p", "o", "i", "n", "t", "_", "o", "f", "_", "i", "n", "t", "e", "r", "e", "s", "t">>}

getCategoryKeyWithSpace(rawType) ==
    IF ~rawType.present \/ rawType.v = <<>> THEN "Landmark"
    ELSE LET type == toLowerCase(rawType.v) IN
         IF IncludesAny(type, MuseumWords) THEN "Museum"
         ELSE IF IncludesAny(type, ParkWords) THEN "Park"
         ELSE IF IncludesAny(type, RestaurantWords) THEN "Restaurant"
         ELSE IF IncludesAny(type, CafeWords) THEN "Cafe"
         ELSE IF IncludesAny(type, ShoppingWords) THEN "Shopping"
         ELSE IF IncludesAny(type, HistoricSiteWords) THEN "Historic Site"
         ELSE IF IncludesAny(type, LandmarkWords) THEN "Landmark"
         ELSE "Landmark"

\* getCategoryKeyFromRawType(rawType)
getCategoryKeyFromRawType(rawType) ==
    IF ~rawType.present \/ rawType.v = <<>> THEN "Landmark"
    ELSE LET type == toLowerCase(rawType.v) IN
         IF IncludesAny(type, MuseumWords) THEN "Museum"
         ELSE IF IncludesAny(type, ParkWords) THEN "Park"
         ELSE IF IncludesAny(type, RestaurantWords) THEN "Restaurant"
         ELSE IF IncludesAny(type, CafeWords) THEN "Cafe"
         ELSE IF IncludesAny(type, ShoppingWords) THEN "Shopping"
         ELSE IF IncludesAny(type, HistoricSiteWords) THEN "HistoricSite"
         ELSE IF IncludesAny(type, LandmarkWords) THEN "Landmark"
         ELSE "Landmark"

\* The raw categories of the places explored: missing, empty, and strings
\* that match no, one or several tests.
RawTypes ==
    {Missing,
     Present(<<>>),
     Present(<<"p", "a", "r", "k", "_", "m", "u", "s", "e", "u", "m">>),
     Present(<<"c", "a", "f", "e">>),
     Present(<<"o", "l", "d", " ", "m", "a", "r", "k", "e", "t">>),
     Present(<<"C", "A", "S", "T", "L", "E">>),
     Present(<<"p", "o", "i">>)}

\* places.filter(test), on the list held in the state
Filter(placeList, Test(_)) == SelectSeq(placeList, Test)

\* filteredPlaces for a value of activeFilterKey
filteredPlaces(placeList, filterKey, favoriteNames) ==
    IF placeList = None THEN <<>>
    ELSE IF filterKey = "Favorites"
    THEN LET IsFavorite(place) == place.name \in favoriteNames IN
         Filter(placeList.items, IsFavorite)
    ELSE IF filterKey = "All" THEN placeList.items
    ELSE LET InCategory(place) ==
                 getCategoryKeyFromRawType(place.category) = filterKey IN
         Filter(placeList.items, InCategory)

\* handleSearch: setPlaces(translatedPlaceList); one search is explored
HandleSearch ==
    /\ tpPlaces = None
    /\ \E categories \in SeqsUpTo(RawTypes, MaxShown) :
         tpPlaces' = List([i \in 1..Len(categories) |->
                             [name |-> i, category |-> categories[i]]])
    /\ UNCHANGED <<tpActiveFilterKey, tpFavorites>>
    /\ UNCHANGED notTopFilter

\* onClick={() => setActiveFilterKey(key)}
SetActiveFilterKey ==
    /\ tpPlaces # None
    /\ \E i \in 1..Len(FILTER_KEYS) :
         /\ FILTER_KEYS[i] # tpActiveFilterKey
         /\ tpActiveFilterKey' = FILTER_KEYS[i]
    /\ UNCHANGED <<tpPlaces, tpFavorites>>
    /\ UNCHANGED notTopFilter

\* handleToggleFavorite(placeName)
HandleToggleFavorite ==
    /\ tpPlaces # None
    /\ \E i \in 1..Len(tpPlaces.items) :
         LET placeName == tpPlaces.items[i].name IN
         tpFavorites' = IF placeName \in tpFavorites
                        THEN tpFavorites \ {placeName}
                        ELSE tpFavorites \cup {placeName}
    /\ UNCHANGED <<tpPlaces, tpActiveFilterKey>>
    /\ UNCHANGED notTopFilter

TopFilterInit ==
    /\ tpPlaces = None
    /\ tpActiveFilterKey = "All"
    /\ tpFavorites = {}

TopFilterNext ==
    \/ HandleSearch
    \/ SetActiveFilterKey
    \/ HandleToggleFavorite

-----------------------------------------------------------------------------
(* Claims about the category filters *)

CategoryKeys ==
    {"Museum", "Park", "Restaurant", "Cafe", "Shopping", "HistoricSite",
     "Landmark"}

\* The keys in the order of specificity the claim gives, with their words.
ClaimedOrder ==
    << [key |-> "Museum", words |-> MuseumWords],
       [key |-> "Park", words |-> ParkWords],
       [key |-> "Restaurant", words |-> RestaurantWords],
       [key |-> "Cafe", words |-> CafeWords],
       [key |-> "Shopping", words |-> ShoppingWords],
       [key |-> "HistoricSite", words |-> HistoricSiteWords],
       [key |-> "Landmark", words |-> LandmarkWords] >>

\* The first key, in that order, one of whose words occurs in the raw type
\* in any letter case; 'Landmark' when there is none.
ClaimedKey(rawType) ==
    LET matching == {i \in 1..Len(ClaimedOrder) :
                       /\ rawType.present
                       /\ \E w \in ClaimedOrder[i].words :
                            includes(toLowerCase(rawType.v), w)} IN
    IF matching = {} THEN "Landmark"
    ELSE ClaimedOrder[CHOOSE i \in matching : \A j \in matching : i <= j].key

\* The names of the places of a list.
NamesOf(placeList) == {placeList[i].name : i \in 1..Len(placeList)}

\* The positions of the list shown under a filter key.
ShownUnder(filterKey) ==
    NamesOf(filteredPlaces(tpPlaces, filterKey, tpFavorites))

\* C13: every raw type has exactly one category key, the first in the order
\* Museum, Park, Restaurant, Cafe, Shopping, HistoricSite, Landmark whose test
\* matches and Landmark otherwise; every place is listed under exactly one
\* category filter, and the category lists together are the 'All' list.
C13_FiltersPartition ==
    tpPlaces # None =>
        LET shown == [k \in CategoryKeys |->
                        filteredPlaces(tpPlaces, k, tpFavorites)]
            all == filteredPlaces(tpPlaces, "All", tpFavorites) IN
        /\ \A i \in 1..Len(tpPlaces.items) :
             LET place == tpPlaces.items[i]
                 key == getCategoryKeyFromRawType(place.category) IN
             /\ key \in CategoryKeys
             /\ key = ClaimedKey(place.category)
             /\ Cardinality({k \in CategoryKeys : place.name \in NamesOf(shown[k])}) = 1
        /\ UNION {NamesOf(shown[k]) : k \in CategoryKeys} = NamesOf(all)
        /\ \A k \in CategoryKeys : Len(shown[k]) = Cardinality(NamesOf(shown[k]))
        /\ Len(all) = Len(tpPlaces.items)

\* C13 happens: a place whose type matches two tests is shown under the more
\* specific filter, next to a place of another category that is not.
C13_Witness ==
    /\ tpPlaces # None
    /\ tpActiveFilterKey = "Museum"
    /\ Len(tpPlaces.items) = 2
    /\ Len(filteredPlaces(tpPlaces, tpActiveFilterKey, tpFavorites)) = 1
    /\ \E i \in 1..2 :
         /\ tpPlaces.items[i].category.present
         /\ includes(toLowerCase(tpPlaces.items[i].category.v), <<"p", "a", "r", "k">>)
         /\ tpPlaces.items[i].name \in ShownUnder("Museum")
    /\ \E i \in 1..2 : tpPlaces.items[i].name \in ShownUnder("HistoricSite")

-----------------------------------------------------------------------------
(* Chatbot: initializeChat and handleSend *)

\* Number of runs of the initializeChat effect explored (the mount and the
\* changes of landmarkName or t).
MaxInits == 2

\* Number of messages accepted by handleSend explored.
MaxSends == 2

InitIds == 1..MaxInits
SendIds == 1..MaxSends

\* What the user may have typed in the input field.
Inputs == {<<>>, <<" ">>, <<"h", "i">>, <<" ", "h", "i", " ">>}

RECURSIVE trimString(_)
\* String.prototype.trim, on a string of characters
trimString(s) ==
    IF s = <<>> THEN s
    ELSE IF s[1] = " " THEN trimString(Tail(s))
    ELSE IF s[Len(s)] = " " THEN trimString(SubSeq(s, 1, Len(s) - 1))
    ELSE s

\* ChatMessage
Message(role, kind, id) == [role |-> role, kind |-> kind, id |-> id]

\* The sends of handleSend that have not settled.
Outstanding == {k \in SendIds : cbSends[k].pc = "pending"}

\* if (!input.trim() || !chat || isLoading) return;
Accepts == trimString(cbInput) # <<>> /\ cbChat # None /\ ~cbIsLoading

\* initializeChat() up to await sendChatMessage(chatSession, initialMessage)
InitializeChat(i) ==
    /\ cbInits[i] = "unborn"
    /\ \A j \in InitIds : j < i => cbInits[j] # "unborn"
    /\ cbIsLoading' = TRUE
    /\ cbChat' = [tag |-> "chat", session |-> i]
    /\ cbInits' = [cbInits EXCEPT ![i] = "pending"]

\* The component is mounted and its effect runs.
ChatMount ==
    /\ ~cbMounted
    /\ cbMounted' = TRUE
    /\ \E i \in InitIds : InitializeChat(i)
    /\ UNCHANGED <<cbMessages, cbInput, cbSends>>
    /\ UNCHANGED notChat

\* landmarkName or t changes: the effect runs again.
ChatEffectRerun ==
    /\ cbMounted
    /\ \E i \in InitIds : InitializeChat(i)
    /\ UNCHANGED <<cbMounted, cbMessages, cbInput, cbSends>>
    /\ UNCHANGED notChat

\* initializeChat after the welcome message arrived
InitResolved ==
    \E i \in InitIds :
      /\ cbInits[i] = "pending"
      /\ cbInits' = [cbInits EXCEPT ![i] = "done"]
      /\ cbMessages' = <<Message("model", "welcome", i)>>
      /\ cbIsLoading' = FALSE
      /\ UNCHANGED <<cbMounted, cbChat, cbInput, cbSends>>
      /\ UNCHANGED notChat

\* initializeChat when sendChatMessage rejected: nothing catches it
InitRejected ==
    \E i \in InitIds :
      /\ cbInits[i] = "pending"
      /\ cbInits' = [cbInits EXCEPT ![i] = "failed"]
      /\ UNCHANGED <<cbMounted, cbChat, cbMessages, cbInput, cbIsLoading, cbSends>>
      /\ UNCHANGED notChat

\* onChange of the input field
TypeInput ==
    /\ cbMounted
    /\ \E text \in Inputs : text # cbInput /\ cbInput' = text
    /\ UNCHANGED <<cbMounted, cbChat, cbMessages, cbIsLoading, cbInits, cbSends>>
    /\ UNCHANGED notChat

\* handleSend(e) up to await sendChatMessage(chat, input)
HandleSend ==
    /\ cbMounted
    /\ Accepts
    /\ \E k \in SendIds :
         /\ cbSends[k].pc = "unborn"
         /\ \A j \in SendIds : j < k => cbSends[j].pc # "unborn"
         /\ cbSends' = [cbSends EXCEPT ![k] =
               [pc |-> "pending", replies |-> 0,
                blank |-> trimString(cbInput) = <<>>,
                hadChat |-> cbChat # None,
                wasLoading |-> cbIsLoading,
                others |-> Cardinality(Outstanding)]]
         /\ cbMessages' = Append(cbMessages, Message("user", "text", k))
    /\ cbInput' = <<>>
    /\ cbIsLoading' = TRUE
    /\ UNCHANGED <<cbMounted, cbChat, cbInits>>
    /\ UNCHANGED notChat

\* handleSend after the await: the reply (try) or the chatbotError text
\* (catch), then the finally block
SendSettled ==
    \E k \in SendIds, kind \in {"reply", "chatbotError"} :
      /\ cbSends[k].pc = "pending"
      /\ cbSends' = [cbSends EXCEPT ![k].pc = "done",
                                    ![k].replies = cbSends[k].replies + 1]
      /\ cbMessages' = Append(cbMessages, Message("model", kind, k))
      /\ cbIsLoading' = FALSE
      /\ UNCHANGED <<cbMounted, cbChat, cbInput, cbInits>>
      /\ UNCHANGED notChat

ChatInit ==
    /\ cbMounted = FALSE
    /\ cbChat = None
    /\ cbMessages = <<>>
    /\ cbInput = <<>>
    /\ cbIsLoading = TRUE
    /\ cbInits = [i \in InitIds |-> "unborn"]
    /\ cbSends = [k \in SendIds |-> [pc |-> "unborn"]]

ChatNext ==
    \/ ChatMount
    \/ ChatEffectRerun
    \/ InitResolved
    \/ InitRejected
    \/ TypeInput
    \/ HandleSend
    \/ SendSettled

-----------------------------------------------------------------------------
(* Claims about Chatbot *)

\* The positions of the messages of a role and id in the list.
PositionsOf(role, id) ==
    {p \in 1..Len(cbMessages) :
        cbMessages[p].role = role /\ cbMessages[p].id = id}

\* C14: a message is accepted only with a non-blank input, a chat session
\* and isLoading false, and never while another accepted message is
\* outstanding; a message that is outstanding keeps isLoading true; once it
\* has settled exactly one model message stands after it in the list.
C14_OneReplyPerMessage ==
    \A k \in SendIds :
        cbSends[k].pc # "unborn" =>
            /\ ~cbSends[k].blank /\ cbSends[k].hadChat /\ ~cbSends[k].wasLoading
            /\ cbSends[k].others = 0
            /\ cbSends[k].pc = "pending" => cbIsLoading
            /\ cbSends[k].pc = "done" =>
                 /\ Cardinality(PositionsOf("model", k)) = 1
                 /\ \E u \in PositionsOf("user", k) :
                      \A m \in PositionsOf("model", k) : u < m

\* The part of C14 the code keeps: the test at acceptance, and exactly one
\* model message appended for every accepted message that has settled.
C14_TestAndOneAppend ==
    \A k \in SendIds :
        cbSends[k].pc # "unborn" =>
            /\ ~cbSends[k].blank /\ cbSends[k].hadChat /\ ~cbSends[k].wasLoading
            /\ cbSends[k].pc = "pending" => cbSends[k].replies = 0
            /\ cbSends[k].pc = "done" => cbSends[k].replies = 1

-----------------------------------------------------------------------------
(* identifyLandmark *)

\* 'unknown landmark'
UnknownLandmark ==
    <<"u", "n", "k", "n", "o", "w", "n", " ", "l", "a", "n", "d", "m", "a",
      "r", "k">>

\* Error messages
CouldNotIdentify ==
    "I couldn't identify a landmark in this photo. Please try another one."
FailedAudio == "Failed to generate audio data."

\* What the identification model may answer.
IdentificationTexts ==
    {<<"U", "n", "k", "n", "o", "w", "n", " ", "L", "a", "n", "d", "m",
       "a", "r", "k">>,
     <<" ", "U", "N", "K", "N", "O", "W", "N", " ", "L", "A", "N", "D",
       "M", "A", "R", "K", " ">>,
     <<"i", "t", " ", "i", "s", " ", "a", "n", " ", "u", "n", "k", "n",
       "o", "w", "n", " ", "l", "a", "n", "d", "m", "a", "r", "k", ".">>,
     <<"U", "n", "k", "n", "o", "w", "n">>,
     <<"E", "i", "f", "f", "e", "l", " ", "T", "o", "w", "e", "r">>,
     <<"u", "n", "k", "n", "o", "w", "n", " ", " ", "l", "a", "n", "d",
       "m", "a", "r", "k">>,
     <<>>}

\* What the history model may answer.
HistoryTexts == {<<>>, <<"h">>, <<" ", "h", " ">>}

\* The inlineData of the audio answer: absent, empty, or base64 data.
AudioAnswers == {Missing, Present(""), Present("UklGRg==")}

\* A settled callGeminiWithRetry: rejected, or a response with or without
\* a text.
Answers(texts) ==
    {[tag |-> "rejected"], [tag |-> "response", hasText |-> FALSE]} \cup
    {[tag |-> "response", hasText |-> TRUE, text |-> x] : x \in texts}

IsUnknownCaseSensitive(landmarkName) ==
    includes(landmarkName, <<"U", "n", "k", "n", "o", "w", "n", " ",
                             "L", "a", "n", "d", "m", "a", "r", "k">>)

\* landmarkName.toLowerCase().includes('unknown landmark')
IsUnknown(landmarkName) == includes(toLowerCase(landmarkName), UnknownLandmark)

IlRejected(message) ==
    /\ ilPc' = "rejected"
    /\ ilResult' = [tag |-> "threw", message |-> message]

\* identifyLandmark(imageFile, language, onProgress) up to
\* await fileToGenerativePart(imageFile)
IdentifyLandmark ==
    /\ ilPc = "idle"
    /\ ilPc' = "preparing"
    /\ \E lang \in {"English", "Spanish"} : ilLanguage' = lang
    /\ ilProgress' = <<"Preparing analysis...">>
    /\ UNCHANGED <<ilRequests, ilAnswer, ilName, ilHistory, ilAudio, ilResult>>
    /\ UNCHANGED notIdentify

\* reader.onloadend: the image part is ready and the identification request
\* is issued
ImagePrepared ==
    /\ ilPc = "preparing"
    /\ ilPc' = "identifying"
    /\ ilProgress' = Append(ilProgress, "Identifying landmark...")
    /\ \E resultIsString \in BOOLEAN :
         ilRequests' = Append(ilRequests,
                              [request |-> "identification",
                               data |-> IF resultIsString THEN "base64" ELSE ""])
    /\ UNCHANGED <<ilLanguage, ilAnswer, ilName, ilHistory, ilAudio, ilResult>>
    /\ UNCHANGED notIdentify

\* The identification request settles.
IdentificationSettled ==
    /\ ilPc = "identifying"
    /\ \E answer \in Answers(IdentificationTexts) :
         /\ ilAnswer' = answer
         /\ IF answer.tag = "rejected"
            THEN /\ IlRejected("ApiError")
                 /\ UNCHANGED <<ilName, ilProgress, ilRequests>>
            ELSE IF ~answer.hasText
            THEN /\ IlRejected("TypeError")
                 /\ UNCHANGED <<ilName, ilProgress, ilRequests>>
            ELSE LET landmarkName == trimString(answer.text) IN
                 /\ ilName' = [tag |-> "name", text |-> landmarkName]
                 /\ IF IsUnknown(landmarkName)
                    THEN /\ IlRejected(CouldNotIdentify)
                         /\ UNCHANGED <<ilProgress, ilRequests>>
                    ELSE /\ ilPc' = "researching"
                         /\ ilProgress' = Append(ilProgress, "Researching history...")
                         /\ ilRequests' = Append(ilRequests,
                                                 [request |-> "history",
                                                  data |-> ilLanguage])
                         /\ ilResult' = ilResult
         /\ answer.tag = "rejected" \/ ~answer.hasText => ilName' = ilName
    /\ UNCHANGED <<ilLanguage, ilHistory, ilAudio>>
    /\ UNCHANGED notIdentify

\* The history request settles.
HistorySettled ==
    /\ ilPc = "researching"
    /\ \E answer \in Answers(HistoryTexts) :
         IF answer.tag = "rejected"
         THEN /\ IlRejected("ApiError")
              /\ UNCHANGED <<ilHistory, ilProgress, ilRequests>>
         ELSE IF ~answer.hasText
         THEN /\ IlRejected("TypeError")
              /\ UNCHANGED <<ilHistory, ilProgress, ilRequests>>
         ELSE /\ ilHistory' = [tag |-> "history", text |-> trimString(answer.text)]
              /\ ilPc' = "synthesising"
              /\ ilProgress' = Append(ilProgress, "Creating audio guide...")
              /\ ilRequests' = Append(ilRequests,
                                      [request |-> "tts", data |-> "ttsPrompt"])
              /\ ilResult' = ilResult
    /\ UNCHANGED <<ilLanguage, ilAnswer, ilName, ilAudio>>
    /\ UNCHANGED notIdentify

\* The text-to-speech request settles.
AudioSettled ==
    /\ ilPc = "synthesising"
    /\ \E rejected \in BOOLEAN, audioData \in AudioAnswers :
         IF rejected
         THEN /\ IlRejected("ApiError")
              /\ ilAudio' = ilAudio
         ELSE /\ ilAudio' = [tag |-> "audio", data |-> audioData]
              /\ IF ~audioData.present \/ audioData.v = ""
                 THEN IlRejected(FailedAudio)
                 ELSE /\ ilPc' = "resolved"
                      /\ ilResult' = [tag |-> "returned",
                                      name |-> ilName.text,
                                      history |-> ilHistory.text,
                                      audioData |-> audioData.v]
    /\ UNCHANGED <<ilLanguage, ilProgress, ilRequests, ilAnswer, ilName, ilHistory>>
    /\ UNCHANGED notIdentify

IdentifyInit ==
    /\ ilPc = "idle"
    /\ ilLanguage = ""
    /\ ilProgress = <<>>
    /\ ilRequests = <<>>
    /\ ilAnswer = None
    /\ ilName = None
    /\ ilHistory = None
    /\ ilAudio = None
    /\ ilResult = None

IdentifyNext ==
    \/ IdentifyLandmark
    \/ ImagePrepared
    \/ IdentificationSettled
    \/ HistorySettled
    \/ AudioSettled

-----------------------------------------------------------------------------
(* Claims about identifyLandmark *)

\* The text holds 'unknown landmark' at some position, in any letter case.
SaysUnknownLandmark(text) ==
    \E i \in 0..(Len(text) - Len(UnknownLandmark)) :
        \A j \in 1..Len(UnknownLandmark) :
            toLowerChar(text[i + j]) = UnknownLandmark[j]

\* The requests issued so far, by kind.
Requested == {ilRequests[i].request : i \in 1..Len(ilRequests)}

\* C16: once the identification answer holds 'unknown landmark' in any letter
\* case, identifyLandmark has rejected with the couldn't-identify error and
\* has issued neither the history nor the text-to-speech request; it resolves
\* only with a non-empty audioData, and rejects with 'Failed to generate
\* audio data.' when the audio answer has none.
C16_UnknownAndAudio ==
    /\ (ilAnswer # None /\ ilAnswer.tag = "response" /\ ilAnswer.hasText /\
        SaysUnknownLandmark(ilAnswer.text))
          => /\ ilPc = "rejected"
             /\ ilResult = [tag |-> "threw", message |-> CouldNotIdentify]
             /\ Requested = {"identification"}
    /\ ilPc = "resolved" =>
          /\ ilResult.tag = "returned"
          /\ ilResult.audioData # ""
          /\ ilAudio.data = Present(ilResult.audioData)
    /\ (ilAudio # None /\ (~ilAudio.data.present \/ ilAudio.data.v = ""))
          => /\ ilPc = "rejected"
             /\ ilResult = [tag |-> "threw", message |-> FailedAudio]

\* C16 happens: the answer says UNKNOWN LANDMARK in capitals and the call
\* rejected after the identification request alone.
C16_Witness ==
    /\ ilAnswer # None
    /\ ilAnswer.tag = "response"
    /\ ilAnswer.hasText
    /\ includes(ilAnswer.text, <<"U", "N", "K", "N", "O", "W", "N">>)
    /\ ilPc = "rejected"
    /\ ilResult = [tag |-> "threw", message |-> CouldNotIdentify]
    /\ Len(ilRequests) = 1

\* The audio answer had no data and the call rejected.
C16_NoAudio ==
    /\ ilAudio # None
    /\ ~ilAudio.data.present
    /\ ilPc = "rejected"
    /\ Len(ilRequests) = 3

-----------------------------------------------------------------------------
Init ==
    /\ RetryInit /\ DecodeInit /\ PlayerInit /\ NearbyInit /\ ResponseInit
    /\ TopPlacesInit /\ ProviderInit /\ TopFilterInit /\ ChatInit /\ IdentifyInit

SpecRetry == Init /\ [][RetryNext]_vars

\* Every apiCall settles and every sleep elapses.
SpecRetryFair ==
    /\ Init
    /\ [][RetryNext]_vars
    /\ WF_vars(ApiResolve \/ ApiReject)
    /\ WF_vars(SleepElapsed)

SpecDecode == Init /\ [][DecodeNext]_vars

SpecPlayer == Init /\ [][PlayerNext]_vars

SpecNearby == Init /\ [][NearbyNext]_vars

InitLocation ==
    /\ RetryInit /\ DecodeInit /\ PlayerInit /\ ResponseInit
    /\ TopPlacesInit /\ ProviderInit /\ TopFilterInit /\ ChatInit /\ IdentifyInit
    /\ (NearbyInit \/ StoredEarlier)

SpecLocation == InitLocation /\ [][LocationNext]_vars

SpecFind == Init /\ [][FindNext]_vars

SpecTranslate == Init /\ [][TranslateNext]_vars

SpecTopPlaces == Init /\ [][TopPlacesNext]_vars

InitProvider ==
    /\ RetryInit /\ DecodeInit /\ PlayerInit /\ NearbyInit /\ ResponseInit
    /\ TopPlacesInit /\ ProviderStored /\ TopFilterInit /\ ChatInit /\ IdentifyInit

SpecProvider == InitProvider /\ [][ProviderNext]_vars

SpecTopFilter == Init /\ [][TopFilterNext]_vars

SpecChat == Init /\ [][ChatNext]_vars

SpecIdentify == Init /\ [][IdentifyNext]_vars

=============================================================================
